---- MODULE Spec2Model ----
(***************************************************************************)
(* The message processing pipeline of the chat feature: ChatManager        *)
(* (request gate, validation, retry around the streamed generation,        *)
(* ledger appends, trimming) over ConversationStateManager, with the       *)
(* SafetyFilter rules the pipeline calls.                                  *)
(*                                                                         *)
(* JavaScript runs one task at a time and a task gives up the thread only  *)
(* at an await.  A call of sendMessage is a task; pc[c] is its position.   *)
(* The positions in RunningPcs are positions inside a synchronous stretch  *)
(* of code: while some task is there, no other task takes a step.  The     *)
(* other positions are awaits, where any other task may run.               *)
(***************************************************************************)
EXTENDS Integers, Sequences, FiniteSets, TLC

\* ------------------------------------------------------------------ bounds
MaxCalls == 3           \* sendMessage invocations made in one run
RetryDelay == 2         \* config.retryDelay, in clock ticks (default 1000 ms)
MaxHistoryLength == 3   \* config.maxHistoryLength (default 50)
LiveCalls == 2          \* invocations made in the runs checked for progress
MaxReads == 2           \* reader.read() values a stream text is cut into
MaxTokens == 4          \* LLMService config.maxTokens (default 4096)
ContextWindow == 8      \* the contextWindow a TokenManager is built with
MaxListLength == 3      \* messages in a list handed to TokenManager
MaxRepeats == 2         \* times one call is made with the same arguments
MaxGathers == 3          \* gatherContext calls made
MaxTicks == 2            \* milliseconds told apart at the start and around CACHE_TTL
MaxOps == 5             \* operations made on ConversationStateManager directly

Calls == 1..MaxCalls

\* ------------------------------------------------------- program constants
CHARS_PER_TOKEN == 4
RetryAttempts == 3      \* config.retryAttempts, the default

NoError == "<none>"
NoContext == [activeFile |-> "<none>"]
GatheredContext == [activeFile |-> "src/main.ts"]
NoMetadata == [tokenCount |-> 0, present |-> FALSE]
NoMessage == [id |-> 0, role |-> "<none>", content |-> "", context |-> NoContext,
              metadata |-> NoMetadata]
NoErrorInfo == [type |-> "<none>", message |-> "", retryable |-> FALSE]
NoResponse == [settled |-> "pending", message |-> NoMessage, error |-> NoErrorInfo]
NoGen == [stream |-> <<>>, pos |-> 0]

\* Texts a caller sends, streams the remote endpoint produces and the errors
\* its generator raises.
UserInputs == {"Hello", "sudo rm -rf /"}
GenStreams == {<<"Hello <script>alert(1)", "</script>world!">>}
GenErrors == {"Network error", "Authentication failed - please check your API key"}

BusyMessage == "Another message is currently being processed"
ApologyPrefix == "I apologize, but I encountered an error: "
BlockedPrefix == "Message blocked: "
GenerationFailedPrefix == "LLM generation failed: "
SaveFailedMessage == "Failed to save conversation"
ValidatorFailedMessage == "validator failed"

\* ------------------------------------------------------------ text helpers
StartsWithAt(s, i, m) ==
    /\ i >= 1
    /\ i + Len(m) - 1 <= Len(s)
    /\ SubSeq(s, i, i + Len(m) - 1) = m

Includes(s, m) == \E i \in 1..(Len(s) - Len(m) + 1) : StartsWithAt(s, i, m)

\* The first index >= i at which m occurs in s, or 0.
IndexOfFrom(s, m, i) ==
    LET hits == {j \in i..(Len(s) - Len(m) + 1) : StartsWithAt(s, j, m)}
    IN IF hits = {} THEN 0 ELSE CHOOSE j \in hits : \A k \in hits : j <= k

RECURSIVE JoinFrom(_, _, _)
JoinFrom(parts, sep, i) ==
    IF i > Len(parts) THEN ""
    ELSE IF i = Len(parts) THEN parts[i]
    ELSE parts[i] \o sep \o JoinFrom(parts, sep, i + 1)

\* Array.prototype.join
Join(parts, sep) == JoinFrom(parts, sep, 1)

RECURSIVE ReplaceAllFrom(_, _, _, _)
ReplaceAllFrom(s, pat, by, i) ==
    IF i > Len(s) THEN ""
    ELSE IF StartsWithAt(s, i, pat) THEN by \o ReplaceAllFrom(s, pat, by, i + Len(pat))
    ELSE SubSeq(s, i, i) \o ReplaceAllFrom(s, pat, by, i + 1)

\* String.prototype.replace with a global literal pattern
ReplaceAll(s, pat, by) == ReplaceAllFrom(s, pat, by, 1)

\* --------------------------------------------------------- SafetyFilter
\* initializeRules: each rule's pattern is represented by a literal text that
\* the pattern matches (the regular expressions are matched on these literals).
SafetyRules == <<
    [needle |-> "rm -rf /", severity |-> "error",
     message |-> "Dangerous file system operations are not allowed"],
    [needle |-> "sudo ", severity |-> "error",
     message |-> "Privilege escalation commands are not allowed"],
    [needle |-> "eval(", severity |-> "error",
     message |-> "Code injection patterns detected"],
    [needle |-> "curl ", severity |-> "warning",
     message |-> "Network access detected - review for security"],
    [needle |-> "readFile(", severity |-> "warning",
     message |-> "File access operations detected"],
    [needle |-> "DROP TABLE", severity |-> "error",
     message |-> "Dangerous database operations detected"] >>

MaliciousCodePatterns ==
    {"rm -rf /", "sudo ", "eval(", "exec(", "<script>", "javascript:",
     "document.cookie", "window.location", ".innerHTML =", "system("}

checkForMaliciousCode(code) == \E p \in MaliciousCodePatterns : Includes(code, p)

RECURSIVE RuleMessagesFrom(_, _, _)
RuleMessagesFrom(message, severity, i) ==
    IF i > Len(SafetyRules) THEN <<>>
    ELSE (IF SafetyRules[i].severity = severity /\ Includes(message, SafetyRules[i].needle)
          THEN <<SafetyRules[i].message>> ELSE <<>>)
         \o RuleMessagesFrom(message, severity, i + 1)

\* Lines 16-43.  The texts of UserInputs hold no sensitive information, so
\* lines 37-40 add no warning.
validateRequest(message) ==
    LET errors == RuleMessagesFrom(message, "error", 1)
                  \o (IF checkForMaliciousCode(message)
                      THEN <<"Message contains potentially malicious code patterns">>
                      ELSE <<>>)
        warnings == RuleMessagesFrom(message, "warning", 1)
    IN [isValid |-> errors = <<>>, errors |-> errors, warnings |-> warnings]

\* sanitized.replace(/<script[^>]*>.*?<\/script>/gis, '[SCRIPT_REMOVED]'), for
\* script tags without attributes: each <script> up to the first </script>
\* after it is replaced.
RECURSIVE RemoveScriptsFrom(_, _)
RemoveScriptsFrom(s, i) ==
    IF i > Len(s) THEN ""
    ELSE LET close == IF StartsWithAt(s, i, "<script>")
                      THEN IndexOfFrom(s, "</script>", i + Len("<script>"))
                      ELSE 0
         IN IF close > 0
            THEN "[SCRIPT_REMOVED]" \o RemoveScriptsFrom(s, close + Len("</script>"))
            ELSE SubSeq(s, i, i) \o RemoveScriptsFrom(s, i + 1)

\* Lines 49-50.  The later steps (event handler attributes, sensitive
\* information, shell commands in code blocks: lines 51-57) match nothing in
\* the texts of GenStreams and leave them as they are.
sanitizeResponse(response) ==
    ReplaceAll(RemoveScriptsFrom(response, 1), "javascript:", "javascript_removed:")

\* --------------------------------------------------------- TokenManager
\* An estimate that rounds down.
estimateTokensFloor(text) == Len(text) \div CHARS_PER_TOKEN

\* TokenManager.estimateTokens, part_002 lines 21-24.
estimateTokens(text) ==
    IF text = "" THEN 0
    ELSE (Len(text) + CHARS_PER_TOKEN - 1) \div CHARS_PER_TOKEN

\* ----------------------------------------------------------- messageUtils
createUserMessage(id, content) ==
    [id |-> id, role |-> "user", content |-> content, context |-> NoContext,
     metadata |-> NoMetadata]

createAssistantMessage(id, content) ==
    [id |-> id, role |-> "assistant", content |-> content, context |-> NoContext,
     metadata |-> NoMetadata]

\* ----------------------------------------------- ChatManager, pure parts
\* The error type createErrorResponse uses when the caller gives none.
DefaultErrorType == "system"

\* An error response that is retryable whatever its type.
createErrorResponseRetryable(id, message, type) ==
    [settled |-> "resolved",
     message |-> createAssistantMessage(id, ApologyPrefix \o message),
     error |-> [type |-> type, message |-> message, retryable |-> TRUE]]

createErrorResponse(id, message, type) ==
    [settled |-> "resolved",
     message |-> createAssistantMessage(id, ApologyPrefix \o message),
     error |-> [type |-> type, message |-> message,
                retryable |-> (type = "network" \/ type = "system")]]

\* The response the gate gives a caller it turns away (line 68).
BusyResponse(id) == createErrorResponse(id, BusyMessage, DefaultErrorType)

BlockedResponse(id, validation) ==
    createErrorResponse(id, BlockedPrefix \o Join(validation.errors, ", "), "validation")

\* Chunks collected newest first.
PushChunkFront(chunks, chunk) == <<chunk>> \o chunks

\* responseChunks.push(chunk)
PushChunk(chunks, chunk) == Append(chunks, chunk)

\* generateResponse, lines 210-226: the assistant message built from the chunks.
BuildAssistantMessage(id, chunks, filterOn) ==
    LET responseContent == Join(chunks, "")
        sanitizedContent == IF filterOn THEN sanitizeResponse(responseContent)
                            ELSE responseContent
    IN [createAssistantMessage(id, sanitizedContent) EXCEPT
          !.metadata = [tokenCount |-> estimateTokens(sanitizedContent), present |-> TRUE]]

SuccessResponse(assistantMessage) ==
    [settled |-> "resolved", message |-> assistantMessage, error |-> NoErrorInfo]

\* generateResponseWithRetry, line 174: whether a delay and another attempt follow.
AttemptsRemain(attempt) == attempt < RetryAttempts

\* The same delay after every attempt.
ConstantDelay(attempt) == RetryDelay

\* line 176
BackoffDelay(attempt) == RetryDelay * attempt

\* ConversationStateManager.trimConversationHistory, lines 191-195.
TrimmedMessages(msgs, limit) ==
    IF Len(msgs) <= limit THEN msgs
    ELSE SubSeq(msgs, Len(msgs) - limit + 1, Len(msgs))

\* ------------------------------------------------------------------ state
VARIABLES
    isProcessing,            \* ChatManager.isProcessing
    enableSafetyFilter,      \* config.enableSafetyFilter
    enableContextGathering,  \* config.enableContextGathering
    messages,                \* currentConversation.messages
    messageCount,            \* currentConversation.metadata.messageCount
    totalTokens,             \* currentConversation.metadata.totalTokens
    stored,                  \* the messages of the conversation as last saved
    pc,                      \* position of each sendMessage call
    arg,                     \* its message argument
    userMessage,             \* local userMessage
    assistantMessage,        \* local assistantMessage
    attempt,                 \* loop variable of generateResponseWithRetry
    lastError,               \* local lastError
    responseChunks,          \* local responseChunks of generateResponse
    gen,                     \* the generator being consumed: its stream, its position
    thrown,                  \* the error on its way to the catch block
    ret,                     \* the value the return statement has produced
    timer,                   \* ticks left of the pending delay()
    delivered,               \* the response most recently given to a caller
    outcome,                 \* how each call's promise settled
    \* history variables, written and never read by the program
    genCalls,                \* llmService.generateResponse invocations of the call
    genFailures,             \* how many of them failed
    valCalls,                \* safetyFilter.validateRequest invocations
    ctxCalls,                \* contextManager.getCurrentContext invocations
    delayLog,                \* the delays requested, in order
    waited,                  \* ticks spent in delays
    overlapped,              \* whether the call arrived while another was in flight
    admitted,                \* whether the gate let the call in
    failed,                  \* whether a collaborator failed the call for good
    entryMessages,           \* the history when the call was admitted
    genError                 \* the error the generator raised last

gate == <<isProcessing>>
config == <<enableSafetyFilter, enableContextGathering>>
ledger == <<messages, messageCount, totalTokens, stored>>
locals == <<arg, userMessage, assistantMessage, attempt, lastError, responseChunks,
            gen, thrown, ret, timer>>
history == <<genCalls, genFailures, valCalls, ctxCalls, delayLog, waited, overlapped,
             admitted, failed, entryMessages, genError>>
results == <<delivered, outcome>>
pipeline == <<gate, config, ledger, pc, locals, results, history>>

\* One run of LLMService.generateResponse and of the loop that consumes it.
VARIABLES
    httpResponse,            \* what makeStreamingRequest settles with
    wire,                    \* the values reader.read() gives, in order
    wireEnd,                 \* what read() does after them: done, or it fails
    gpc,                     \* position of the generator
    reads,                   \* reader.read() calls made
    buffer,                  \* local buffer
    lines,                   \* the lines of the for loop not yet visited
    yielded,                 \* the fragments the consumer has received
    released,                \* reader.releaseLock() calls made
    acquired,                \* whether getReader() has given a reader
    streamError,             \* the error the consumer receives
    \* history variables
    doneSeen,                \* whether the line 'data: [DONE]' has been visited
    malformedSeen,           \* whether a data line that is not JSON has been visited
    abandoned                \* whether the consumer has left its loop early

streaming == <<httpResponse, wire, wireEnd, gpc, reads, buffer, lines, yielded,
               released,
               acquired, streamError, doneSeen, malformedSeen, abandoned>>

\* One pass of a prompt and a context through optimizeForTokenLimits on their
\* way to the generator.
VARIABLES
    budgetPrompt,            \* the prompt argument
    budgetContext,           \* the context argument
    bpc,                     \* position of the pass
    optimization,            \* what optimizeForTokenLimits returned
    handed                   \* the prompt and context given to the generator

budget == <<budgetPrompt, budgetContext, bpc, optimization, handed>>

\* One call of a function that keeps no state: of TokenManager, or of the
\* post-processing of ChatManager.
VARIABLES
    fnName,                  \* the function called
    fnArgs,                  \* its arguments
    fnReturns,               \* how many times it was called and has returned
    fnResult                 \* what it returned

calls == <<fnName, fnArgs, fnReturns, fnResult>>

\* Operations made on ConversationStateManager directly; they act on the
\* ledger variables of the pipeline.
VARIABLES
    lastOp,                  \* the most recent operation and its arguments
    opError,                 \* the error it threw or rejected with
    saves,                   \* storage.save calls these operations made
    opCount,                 \* operations made so far
    currentId,               \* currentConversation.id
    written                  \* the conversation last written under another key

manager == <<lastOp, opError, saves, opCount, currentId, written>>

\* ContextManager: its cache, the clock it reads and its gatherContext calls.
VARIABLES
    now,                     \* Date.now(), in milliseconds
    contextCache,            \* ContextManager.contextCache, by cache key
    adapterCalls,            \* times a context was gathered from the adapters
    gather                   \* the gatherContext calls: position, type, key, result

cache == <<now, contextCache, adapterCalls, gather>>

units == <<calls, manager, cache>>

\* The state outside the message pipeline, outside the generator, and so on.
beyondPipeline == <<streaming, budget, units>>
beyondStream == <<pipeline, budget, units>>
beyondBudget == <<pipeline, streaming, units>>
beyondCalls == <<pipeline, streaming, budget, manager, cache>>
beyondLedger == <<gate, config, pc, locals, results, history, streaming, budget, calls, cache>>
beyondCache == <<pipeline, streaming, budget, calls, manager>>

vars == <<pipeline, beyondPipeline>>

\* The generator has not been called.
NoWireResponse == [ok |-> FALSE, status |-> "", statusText |-> "", body |-> FALSE,
                   rejects |-> NoError]
NoOptimization == [optimizedPrompt |-> "", optimizedContext |-> "", saved |-> 0]
NothingHanded == [prompt |-> "", context |-> ""]

NoCall == [none |-> TRUE]
NoOp == [name |-> "none"]
NoConversation == [id |-> 0]

\* No function is being called.
CallsIdle ==
    /\ fnName = "none"
    /\ fnArgs = NoCall
    /\ fnReturns = 0
    /\ fnResult = NoCall

\* No operation has been made on the manager directly.
ManagerIdle ==
    /\ lastOp = NoOp
    /\ opError = NoError
    /\ saves = 0
    /\ opCount = 0
    /\ currentId = 1
    /\ written = NoConversation

\* The gatherContext calls that can be made.
Gathers == 1..MaxGathers

NoContextData == [type |-> "<none>", timestamp |-> 0]
NoGather == [pc |-> "init", type |-> "<none>", key |-> <<"<none>", 0>>,
             data |-> NoContextData, cached |-> FALSE, doneAt |-> 0]

\* A ContextManager after its constructor (lines 26-34): the cache is empty.
CacheIdle ==
    /\ now = 0
    /\ contextCache = [k \in {} |-> NoContextData]
    /\ adapterCalls = 0
    /\ gather = [g \in Gathers |-> NoGather]

UnitsIdle == CallsIdle /\ ManagerIdle /\ CacheIdle

\* No prompt is on its way.
BudgetIdle ==
    /\ budgetPrompt = ""
    /\ budgetContext = ""
    /\ bpc = "idle"
    /\ optimization = NoOptimization
    /\ handed = NothingHanded

StreamIdle ==
    /\ httpResponse = NoWireResponse
    /\ wire = <<>>
    /\ wireEnd = "done"
    /\ gpc = "idle"
    /\ reads = 0
    /\ buffer = ""
    /\ lines = <<>>
    /\ yielded = <<>>
    /\ released = 0
    /\ acquired = FALSE
    /\ streamError = NoError
    /\ doneSeen = FALSE
    /\ malformedSeen = FALSE
    /\ abandoned = FALSE

\* Positions inside a synchronous stretch of code.
RunningPcs == {"validate", "gather", "addUser", "attempt", "trim", "catch", "finally"}
\* Positions at an await.
AwaitPcs == {"awaitCtx", "awaitSpec", "stream", "delay", "awaitGen", "awaitTrim"}

\* No task holds the thread: a new task, or a continuation, may start.
EventLoopFree == \A d \in Calls : pc[d] \notin RunningPcs

\* Between admission (line 71) and release (line 123).
InFlight(c) == pc[c] \in RunningPcs \cup AwaitPcs

\* The pipeline after the constructor, with the given configuration flags.
PipelineStart(safetyFilter, contextGathering) ==
    /\ isProcessing = FALSE
    /\ enableSafetyFilter = safetyFilter
    /\ enableContextGathering = contextGathering
    /\ messages = <<>>
    /\ messageCount = 0
    /\ totalTokens = 0
    /\ stored = <<>>
    /\ pc = [c \in Calls |-> "init"]
    /\ arg = [c \in Calls |-> ""]
    /\ userMessage = [c \in Calls |-> NoMessage]
    /\ assistantMessage = [c \in Calls |-> NoMessage]
    /\ attempt = [c \in Calls |-> 0]
    /\ lastError = [c \in Calls |-> NoError]
    /\ responseChunks = [c \in Calls |-> <<>>]
    /\ gen = [c \in Calls |-> NoGen]
    /\ thrown = [c \in Calls |-> NoError]
    /\ ret = [c \in Calls |-> NoResponse]
    /\ timer = [c \in Calls |-> 0]
    /\ delivered = [call |-> 0, response |-> NoResponse]
    /\ outcome = [c \in Calls |-> "pending"]
    /\ genCalls = [c \in Calls |-> 0]
    /\ genFailures = [c \in Calls |-> 0]
    /\ valCalls = [c \in Calls |-> 0]
    /\ ctxCalls = [c \in Calls |-> 0]
    /\ delayLog = [c \in Calls |-> <<>>]
    /\ waited = [c \in Calls |-> 0]
    /\ overlapped = [c \in Calls |-> FALSE]
    /\ admitted = [c \in Calls |-> FALSE]
    /\ failed = [c \in Calls |-> FALSE]
    /\ entryMessages = [c \in Calls |-> <<>>]
    /\ genError = [c \in Calls |-> NoError]

Init ==
    /\ \E safetyFilter, contextGathering \in BOOLEAN :
          PipelineStart(safetyFilter, contextGathering)
    /\ StreamIdle
    /\ BudgetIdle
    /\ UnitsIdle

\* ------------------------------------------------ ConversationStateManager
\* saveConversation: the storage adapter's save succeeds or fails.
SaveOutcomes == BOOLEAN

\* An addMessage that puts its message before the others.
addMessagePrepending(message) ==
    /\ messages' = <<message>> \o messages
    /\ messageCount' = Len(messages) + 1
    /\ totalTokens' = IF message.metadata.present /\ message.metadata.tokenCount # 0
                      THEN totalTokens + message.metadata.tokenCount
                      ELSE totalTokens
    /\ stored' = <<message>> \o messages

\* addMessage (currentConversation is set by the constructor and never unset
\* through ChatManager).  The auto-save is started and not awaited, and a
\* failure of it is logged and dropped: the storage adapter is taken to accept
\* it, as only the awaited saves can change what the pipeline does.
addMessage(message) ==
    /\ messages' = Append(messages, message)
    /\ messageCount' = Len(messages) + 1
    /\ totalTokens' = IF message.metadata.present /\ message.metadata.tokenCount # 0
                      THEN totalTokens + message.metadata.tokenCount
                      ELSE totalTokens
    /\ stored' = Append(messages, message)

\* ------------------------------------------------- ChatManager.sendMessage
\* generateMessageId: an id no other message has.  The messages a call creates
\* are its user message, its assistant message and the message of its error
\* response.
UserMessageId(c) == 10 * c + 1
AssistantMessageId(c) == 10 * c + 2
ErrorMessageId(c) == 10 * c + 3

\* The promise of call c settles to the response.
Deliver(c, response) ==
    /\ delivered' = [call |-> c, response |-> response]
    /\ outcome' = [outcome EXCEPT ![c] = IF response.error = NoErrorInfo THEN "ok" ELSE "error"]

\* A gate that is never consulted.
AdmissionAlwaysOpen == TRUE

\* Line 67: the gate lets the caller in.
AdmissionOpen == ~isProcessing

\* A rejection that releases the gate on its way out.
RejectBusyReleasing(c) ==
    /\ Deliver(c, BusyResponse(ErrorMessageId(c)))
    /\ pc' = [pc EXCEPT ![c] = "done"]
    /\ overlapped' = [overlapped EXCEPT ![c] = \E d \in Calls : InFlight(d)]
    /\ isProcessing' = FALSE
    /\ UNCHANGED <<config, ledger, locals>>
    /\ UNCHANGED <<genCalls, genFailures, valCalls, ctxCalls, delayLog, waited,
                   admitted, failed, entryMessages, genError>>
    /\ UNCHANGED beyondPipeline

\* Lines 67-69: the caller is turned away.
RejectBusy(c) ==
    /\ Deliver(c, BusyResponse(ErrorMessageId(c)))
    /\ pc' = [pc EXCEPT ![c] = "done"]
    /\ overlapped' = [overlapped EXCEPT ![c] = \E d \in Calls : InFlight(d)]
    /\ UNCHANGED <<gate, config, ledger, locals>>
    /\ UNCHANGED <<genCalls, genFailures, valCalls, ctxCalls, delayLog, waited,
                   admitted, failed, entryMessages, genError>>
    /\ UNCHANGED beyondPipeline

\* Line 71.
Admit(c, message) ==
    /\ isProcessing' = TRUE
    /\ pc' = [pc EXCEPT ![c] = "validate"]
    /\ arg' = [arg EXCEPT ![c] = message]
    /\ overlapped' = [overlapped EXCEPT ![c] = \E d \in Calls : InFlight(d)]
    /\ admitted' = [admitted EXCEPT ![c] = TRUE]
    /\ entryMessages' = [entryMessages EXCEPT ![c] = messages]
    /\ UNCHANGED <<config, ledger, results>>
    /\ UNCHANGED <<userMessage, assistantMessage, attempt, lastError, responseChunks,
                   gen, thrown, ret, timer>>
    /\ UNCHANGED <<genCalls, genFailures, valCalls, ctxCalls, delayLog, waited, failed,
                   genError>>
    /\ UNCHANGED beyondPipeline

\* A caller invokes sendMessage (calls are numbered in the order they are made).
SendMessage(c) ==
    /\ pc[c] = "init"
    /\ EventLoopFree
    /\ \A d \in Calls : d < c => pc[d] # "init"
    /\ \E message \in UserInputs :
         IF AdmissionOpen THEN Admit(c, message) ELSE RejectBusy(c)

\* A check that lets every message through.
NeverBlocked(validation) == FALSE

\* Line 77: the validation result turns the message away.
Blocked(validation) == ~validation.isValid

\* Lines 75-83.
Validate(c) ==
    /\ pc[c] = "validate"
    /\ IF enableSafetyFilter
       THEN /\ valCalls' = [valCalls EXCEPT ![c] = @ + 1]
            /\ \E throws \in BOOLEAN :
                 IF throws
                 THEN /\ thrown' = [thrown EXCEPT ![c] = ValidatorFailedMessage]
                      /\ pc' = [pc EXCEPT ![c] = "catch"]
                      /\ failed' = [failed EXCEPT ![c] = TRUE]
                      /\ UNCHANGED ret
                 ELSE LET validation == validateRequest(arg[c])
                      IN IF Blocked(validation)
                         THEN /\ ret' = [ret EXCEPT
                                         ![c] = BlockedResponse(ErrorMessageId(c), validation)]
                              /\ pc' = [pc EXCEPT ![c] = "finally"]
                              /\ failed' = [failed EXCEPT ![c] = TRUE]
                              /\ UNCHANGED thrown
                         ELSE /\ pc' = [pc EXCEPT ![c] = "gather"]
                              /\ UNCHANGED <<thrown, ret, failed>>
       ELSE /\ pc' = [pc EXCEPT ![c] = "gather"]
            /\ UNCHANGED <<valCalls, thrown, ret, failed>>
    /\ UNCHANGED <<gate, config, ledger, results>>
    /\ UNCHANGED <<arg, userMessage, assistantMessage, attempt, lastError,
                   responseChunks, gen, timer>>
    /\ UNCHANGED <<genCalls, genFailures, ctxCalls, delayLog, waited, overlapped,
                   admitted, entryMessages, genError>>
    /\ UNCHANGED beyondPipeline

\* Lines 86-94: the user message is created; the context is asked for.
Gather(c) ==
    /\ pc[c] = "gather"
    /\ userMessage' = [userMessage EXCEPT ![c] = createUserMessage(UserMessageId(c), arg[c])]
    /\ IF enableContextGathering
       THEN /\ ctxCalls' = [ctxCalls EXCEPT ![c] = @ + 1]
            /\ pc' = [pc EXCEPT ![c] = "awaitCtx"]
       ELSE /\ pc' = [pc EXCEPT ![c] = "addUser"]
            /\ UNCHANGED ctxCalls
    /\ UNCHANGED <<gate, config, ledger, results>>
    /\ UNCHANGED <<arg, assistantMessage, attempt, lastError, responseChunks, gen,
                   thrown, ret, timer>>
    /\ UNCHANGED <<genCalls, genFailures, valCalls, delayLog, waited, overlapped,
                   admitted, failed, entryMessages, genError>>
    /\ UNCHANGED beyondPipeline

\* Lines 94-98: getCurrentContext settles; a failure is logged and dropped.
ContextSettled(c) ==
    /\ pc[c] = "awaitCtx"
    /\ EventLoopFree
    /\ \E ok \in BOOLEAN :
         userMessage' = [userMessage EXCEPT ![c].context =
                            IF ok THEN GatheredContext ELSE @]
    /\ pc' = [pc EXCEPT ![c] = "addUser"]
    /\ UNCHANGED <<gate, config, ledger, results, history>>
    /\ UNCHANGED <<arg, assistantMessage, attempt, lastError, responseChunks, gen,
                   thrown, ret, timer>>
    /\ UNCHANGED beyondPipeline

\* The call goes on to generate without appending its user message.
AddUserAfterGeneration(c) ==
    /\ pc[c] = "addUser"
    /\ attempt' = [attempt EXCEPT ![c] = 1]
    /\ pc' = [pc EXCEPT ![c] = "attempt"]
    /\ UNCHANGED <<gate, config, ledger, results, history>>
    /\ UNCHANGED <<arg, userMessage, assistantMessage, lastError, responseChunks, gen,
                   thrown, ret, timer>>
    /\ UNCHANGED beyondPipeline

\* Line 102, and the start of generateResponseWithRetry (line 168, attempt = 1).
AddUser(c) ==
    /\ pc[c] = "addUser"
    /\ addMessage(userMessage[c])
    /\ attempt' = [attempt EXCEPT ![c] = 1]
    /\ pc' = [pc EXCEPT ![c] = "attempt"]
    /\ UNCHANGED <<gate, config, results, history>>
    /\ UNCHANGED <<arg, userMessage, assistantMessage, lastError, responseChunks, gen,
                   thrown, ret, timer>>
    /\ UNCHANGED beyondPipeline

\* ----------------------------------- ChatManager.generateResponseWithRetry
\* A loop that stops one attempt early.
LoopStopsEarly(n) == n < RetryAttempts

\* Line 168: the loop condition.
LoopContinues(n) == n <= RetryAttempts

\* Line 181: what the loop throws once it is left.
ExhaustedError(last) == IF last # NoError THEN last ELSE "All retry attempts failed"

\* An attempt that adds the user message again before it generates.
AttemptAddingUser(c) ==
    /\ pc[c] = "attempt"
    /\ IF LoopContinues(attempt[c])
       THEN /\ addMessage(userMessage[c])
            /\ pc' = [pc EXCEPT ![c] = "awaitSpec"]
            /\ UNCHANGED thrown
       ELSE /\ thrown' = [thrown EXCEPT ![c] = ExhaustedError(lastError[c])]
            /\ pc' = [pc EXCEPT ![c] = "awaitGen"]
            /\ UNCHANGED ledger
    /\ UNCHANGED <<gate, config, results, history>>
    /\ UNCHANGED <<arg, userMessage, assistantMessage, attempt, lastError,
                   responseChunks, gen, ret, timer>>
    /\ UNCHANGED beyondPipeline

\* Lines 168-170 and 186, 258: the loop condition; an attempt starts and
\* generateResponse runs up to the await in buildContextString.
Attempt(c) ==
    /\ pc[c] = "attempt"
    /\ IF LoopContinues(attempt[c])
       THEN /\ pc' = [pc EXCEPT ![c] = "awaitSpec"]
            /\ UNCHANGED thrown
       ELSE /\ thrown' = [thrown EXCEPT ![c] = ExhaustedError(lastError[c])]
            /\ pc' = [pc EXCEPT ![c] = "awaitGen"]
    /\ UNCHANGED <<gate, config, ledger, results, history>>
    /\ UNCHANGED <<arg, userMessage, assistantMessage, attempt, lastError,
                   responseChunks, gen, ret, timer>>
    /\ UNCHANGED beyondPipeline

\* Lines 258-278, 189-203: getRelevantContext settles (a failure is logged and
\* dropped), the context is built and optimised, and the generator is invoked.
InvokeGenerator(c) ==
    /\ pc[c] = "awaitSpec"
    /\ EventLoopFree
    /\ \E stream \in GenStreams : gen' = [gen EXCEPT ![c] = [stream |-> stream, pos |-> 0]]
    /\ responseChunks' = [responseChunks EXCEPT ![c] = <<>>]
    /\ genCalls' = [genCalls EXCEPT ![c] = @ + 1]
    /\ pc' = [pc EXCEPT ![c] = "stream"]
    /\ UNCHANGED <<gate, config, ledger, results>>
    /\ UNCHANGED <<arg, userMessage, assistantMessage, attempt, lastError, thrown,
                   ret, timer>>
    /\ UNCHANGED <<genFailures, valCalls, ctxCalls, delayLog, waited, overlapped,
                   admitted, failed, entryMessages, genError>>
    /\ UNCHANGED beyondPipeline

\* Lines 200-205: the generator yields its next fragment.
StreamYield(c) ==
    /\ pc[c] = "stream"
    /\ EventLoopFree
    /\ gen[c].pos < Len(gen[c].stream)
    /\ responseChunks' = [responseChunks EXCEPT
                            ![c] = PushChunk(@, gen[c].stream[gen[c].pos + 1])]
    /\ gen' = [gen EXCEPT ![c].pos = @ + 1]
    /\ UNCHANGED <<gate, config, ledger, pc, results, history>>
    /\ UNCHANGED <<arg, userMessage, assistantMessage, attempt, lastError, thrown,
                   ret, timer>>
    /\ UNCHANGED beyondPipeline

\* Lines 206-208 and 171-178: the generator fails; the error is wrapped and
\* kept; a delay is started when attempts remain.
StreamFail(c) ==
    /\ pc[c] = "stream"
    /\ EventLoopFree
    /\ \E e \in GenErrors :
         /\ lastError' = [lastError EXCEPT ![c] = GenerationFailedPrefix \o e]
         /\ genError' = [genError EXCEPT ![c] = e]
    /\ genFailures' = [genFailures EXCEPT ![c] = @ + 1]
    /\ IF AttemptsRemain(attempt[c])
       THEN /\ timer' = [timer EXCEPT ![c] = BackoffDelay(attempt[c])]
            /\ delayLog' = [delayLog EXCEPT ![c] = Append(@, BackoffDelay(attempt[c]))]
            /\ pc' = [pc EXCEPT ![c] = "delay"]
            /\ UNCHANGED attempt
       ELSE /\ attempt' = [attempt EXCEPT ![c] = @ + 1]
            /\ pc' = [pc EXCEPT ![c] = "attempt"]
            /\ UNCHANGED <<timer, delayLog>>
    /\ failed' = [failed EXCEPT ![c] = genFailures[c] + 1 >= RetryAttempts]
    /\ UNCHANGED <<gate, config, ledger, results>>
    /\ UNCHANGED <<arg, userMessage, assistantMessage, responseChunks, gen, thrown, ret>>
    /\ UNCHANGED <<genCalls, valCalls, ctxCalls, waited, overlapped, admitted,
                   entryMessages>>
    /\ UNCHANGED beyondPipeline

\* Lines 210-226: the generator is exhausted; the assistant message is built.
StreamDone(c) ==
    /\ pc[c] = "stream"
    /\ EventLoopFree
    /\ gen[c].pos = Len(gen[c].stream)
    /\ assistantMessage' = [assistantMessage EXCEPT
          ![c] = BuildAssistantMessage(AssistantMessageId(c), responseChunks[c],
                                      enableSafetyFilter)]
    /\ pc' = [pc EXCEPT ![c] = "awaitGen"]
    /\ UNCHANGED <<gate, config, ledger, results, history>>
    /\ UNCHANGED <<arg, userMessage, attempt, lastError, responseChunks, gen, thrown,
                   ret, timer>>
    /\ UNCHANGED beyondPipeline

\* The timer of delay() (line 368) runs.
Tick(c) ==
    /\ pc[c] = "delay"
    /\ timer[c] > 0
    /\ timer' = [timer EXCEPT ![c] = @ - 1]
    /\ waited' = [waited EXCEPT ![c] = @ + 1]
    /\ UNCHANGED <<gate, config, ledger, pc, results>>
    /\ UNCHANGED <<arg, userMessage, assistantMessage, attempt, lastError,
                   responseChunks, gen, thrown, ret>>
    /\ UNCHANGED <<genCalls, genFailures, valCalls, ctxCalls, delayLog, overlapped,
                   admitted, failed, entryMessages, genError>>
    /\ UNCHANGED beyondPipeline

\* Whether the timer has run out and delay() resolves.
DelayElapsed(c) == timer[c] = 0

\* Line 176 resumes; line 168 increments attempt.
DelayDone(c) ==
    /\ pc[c] = "delay"
    /\ EventLoopFree
    /\ DelayElapsed(c)
    /\ attempt' = [attempt EXCEPT ![c] = @ + 1]
    /\ pc' = [pc EXCEPT ![c] = "attempt"]
    /\ UNCHANGED <<gate, config, ledger, results, history>>
    /\ UNCHANGED <<arg, userMessage, assistantMessage, lastError, responseChunks, gen,
                   thrown, ret, timer>>
    /\ UNCHANGED beyondPipeline

\* Line 105 resumes with a failure: control goes to the catch block.
GenerationFailed(c) ==
    /\ pc[c] = "awaitGen"
    /\ EventLoopFree
    /\ thrown[c] # NoError
    /\ pc' = [pc EXCEPT ![c] = "catch"]
    /\ UNCHANGED <<gate, config, ledger, locals, results, history>>
    /\ UNCHANGED beyondPipeline

\* Lines 105-108: line 105 resumes with the assistant message, which is appended.
AddAssistant(c) ==
    /\ pc[c] = "awaitGen"
    /\ EventLoopFree
    /\ thrown[c] = NoError
    /\ addMessage(assistantMessage[c])
    /\ pc' = [pc EXCEPT ![c] = "trim"]
    /\ UNCHANGED <<gate, config, locals, results, history>>
    /\ UNCHANGED beyondPipeline

\* Line 111 and trimConversationHistory, lines 188-205: the history is cut and
\* saved; a failing save is thrown as 'Failed to save conversation'.
Trim(c) ==
    /\ pc[c] = "trim"
    /\ IF Len(messages) <= MaxHistoryLength
       THEN UNCHANGED <<ledger, thrown, failed>>
       ELSE /\ messages' = TrimmedMessages(messages, MaxHistoryLength)
            /\ messageCount' = Len(TrimmedMessages(messages, MaxHistoryLength))
            /\ UNCHANGED totalTokens
            /\ \E saved \in SaveOutcomes :
                 IF saved
                 THEN /\ stored' = TrimmedMessages(messages, MaxHistoryLength)
                      /\ UNCHANGED <<thrown, failed>>
                 ELSE /\ thrown' = [thrown EXCEPT ![c] = SaveFailedMessage]
                      /\ failed' = [failed EXCEPT ![c] = TRUE]
                      /\ UNCHANGED stored
    /\ pc' = [pc EXCEPT ![c] = "awaitTrim"]
    /\ UNCHANGED <<gate, config, results>>
    /\ UNCHANGED <<genCalls, genFailures, valCalls, ctxCalls, delayLog, waited,
                   overlapped, admitted, entryMessages, genError>>
    /\ UNCHANGED <<arg, userMessage, assistantMessage, attempt, lastError,
                   responseChunks, gen, ret, timer>>
    /\ UNCHANGED beyondPipeline

\* Lines 111-117: line 111 resumes; the response is returned, or the failure
\* of the save goes to the catch block.
TrimSettled(c) ==
    /\ pc[c] = "awaitTrim"
    /\ EventLoopFree
    /\ IF thrown[c] # NoError
       THEN /\ pc' = [pc EXCEPT ![c] = "catch"]
            /\ UNCHANGED ret
       ELSE /\ ret' = [ret EXCEPT ![c] = SuccessResponse(assistantMessage[c])]
            /\ pc' = [pc EXCEPT ![c] = "finally"]
    /\ UNCHANGED <<gate, config, ledger, results, history>>
    /\ UNCHANGED <<arg, userMessage, assistantMessage, attempt, lastError,
                   responseChunks, gen, thrown, timer>>
    /\ UNCHANGED beyondPipeline

\* A catch block that throws the error on to the caller.
RethrownToCaller(id, message) ==
    [settled |-> "rejected", message |-> NoMessage, error |-> NoErrorInfo]

\* Lines 119-121: what the catch block makes of the error it caught.
CaughtResponse(id, message) == createErrorResponse(id, message, "system")

Catch(c) ==
    /\ pc[c] = "catch"
    /\ ret' = [ret EXCEPT ![c] = CaughtResponse(ErrorMessageId(c), thrown[c])]
    /\ pc' = [pc EXCEPT ![c] = "finally"]
    /\ UNCHANGED <<gate, config, ledger, results, history>>
    /\ UNCHANGED <<arg, userMessage, assistantMessage, attempt, lastError,
                   responseChunks, gen, thrown, timer>>
    /\ UNCHANGED beyondPipeline

\* A finally block that leaves the gate as it is.
GateStaysClosed == isProcessing

\* Line 123: the value the finally block gives the gate.
GateAfterFinally == FALSE

\* Lines 122-124: the gate is released and the caller's promise settles.  The
\* locals of the call are gone.
Finally(c) ==
    /\ pc[c] = "finally"
    /\ isProcessing' = GateAfterFinally
    /\ Deliver(c, ret[c])
    /\ pc' = [pc EXCEPT ![c] = "done"]
    /\ arg' = [arg EXCEPT ![c] = ""]
    /\ userMessage' = [userMessage EXCEPT ![c] = NoMessage]
    /\ assistantMessage' = [assistantMessage EXCEPT ![c] = NoMessage]
    /\ attempt' = [attempt EXCEPT ![c] = 0]
    /\ lastError' = [lastError EXCEPT ![c] = NoError]
    /\ responseChunks' = [responseChunks EXCEPT ![c] = <<>>]
    /\ gen' = [gen EXCEPT ![c] = NoGen]
    /\ thrown' = [thrown EXCEPT ![c] = NoError]
    /\ ret' = [ret EXCEPT ![c] = NoResponse]
    /\ timer' = [timer EXCEPT ![c] = 0]
    /\ genCalls' = [genCalls EXCEPT ![c] = 0]
    /\ genFailures' = [genFailures EXCEPT ![c] = 0]
    /\ valCalls' = [valCalls EXCEPT ![c] = 0]
    /\ ctxCalls' = [ctxCalls EXCEPT ![c] = 0]
    /\ delayLog' = [delayLog EXCEPT ![c] = <<>>]
    /\ waited' = [waited EXCEPT ![c] = 0]
    /\ entryMessages' = [entryMessages EXCEPT ![c] = <<>>]
    /\ genError' = [genError EXCEPT ![c] = NoError]
    /\ UNCHANGED <<config, ledger, overlapped, admitted, failed>>
    /\ UNCHANGED beyondPipeline

\* ---------------------------------------------------------- specification
\* A step of the task of call c.
Step(c) ==
    \/ Validate(c)
    \/ Gather(c)
    \/ ContextSettled(c)
    \/ AddUser(c)
    \/ Attempt(c)
    \/ InvokeGenerator(c)
    \/ StreamYield(c)
    \/ StreamFail(c)
    \/ StreamDone(c)
    \/ Tick(c)
    \/ DelayDone(c)
    \/ GenerationFailed(c)
    \/ AddAssistant(c)
    \/ Trim(c)
    \/ TrimSettled(c)
    \/ Catch(c)
    \/ Finally(c)

Next ==
    \/ \E c \in Calls : SendMessage(c)
    \/ \E c \in Calls : Validate(c)
    \/ \E c \in Calls : Gather(c)
    \/ \E c \in Calls : ContextSettled(c)
    \/ \E c \in Calls : AddUser(c)
    \/ \E c \in Calls : Attempt(c)
    \/ \E c \in Calls : InvokeGenerator(c)
    \/ \E c \in Calls : StreamYield(c)
    \/ \E c \in Calls : StreamFail(c)
    \/ \E c \in Calls : StreamDone(c)
    \/ \E c \in Calls : Tick(c)
    \/ \E c \in Calls : DelayDone(c)
    \/ \E c \in Calls : GenerationFailed(c)
    \/ \E c \in Calls : AddAssistant(c)
    \/ \E c \in Calls : Trim(c)
    \/ \E c \in Calls : TrimSettled(c)
    \/ \E c \in Calls : Catch(c)
    \/ \E c \in Calls : Finally(c)

Spec == Init /\ [][Next]_vars

\* The runs in which at most LiveCalls invocations are made.
LiveNext ==
    \/ \E c \in Calls : c <= LiveCalls /\ SendMessage(c)
    \/ \E c \in Calls : Step(c)

\* The event loop runs a continuation that is ready, the collaborators settle
\* and the timers run: while a task has a step to take, a step is eventually
\* taken.  (Callers are not obliged to call.)
FairSpec == Init /\ [][LiveNext]_vars /\ WF_vars(\E c \in Calls : Step(c))

\* ------------------------------------------------------------ properties
ErrorTypes == {"network", "auth", "validation", "system"}

NormalShape(r) ==
    /\ r.error = NoErrorInfo
    /\ ~StartsWithAt(r.message.content, 1, ApologyPrefix)

ErrorShape(r) ==
    /\ r.error.type \in ErrorTypes
    /\ r.error.message # ""
    /\ r.message.content = ApologyPrefix \o r.error.message

\* C1: in every reachable state at most one sendMessage invocation is between
\* admission and release, and the gate flag is set exactly while one is.
C1_MutualExclusion ==
    /\ Cardinality({c \in Calls : InFlight(c)}) <= 1
    /\ isProcessing <=> (\E c \in Calls : InFlight(c))

\* One call is suspended in the stream while another call arrived and was
\* turned away.
C1_Witness ==
    \E c, d \in Calls :
        /\ pc[c] = "stream"
        /\ pc[d] = "done"
        /\ overlapped[d]
        /\ ~admitted[d]

\* C2: of two overlapping invocations, the one that arrives while the other is
\* in flight gets an error response carrying the busy message; the one in
\* flight completes normally unless one of its own collaborators fails; and a
\* call that arrives when no call is in flight is admitted.
C2_OverlapRejectedOthersServed ==
    /\ \A c \in Calls :
         pc[c] = "done" =>
            /\ overlapped[c] => ~admitted[c] /\ outcome[c] = "error"
            /\ ~overlapped[c] => admitted[c] /\ (~failed[c] => outcome[c] = "ok")
    /\ delivered.call \in Calls /\ overlapped[delivered.call] =>
         /\ delivered.response.error.message = BusyMessage
         /\ Includes(delivered.response.message.content, BusyMessage)
    /\ (\A c \in Calls : ~InFlight(c)) => ~isProcessing

\* The first call completed normally, the second arrived while it was in
\* flight and was turned away, the third came later and succeeded.
C2_Witness ==
    /\ MaxCalls >= 3
    /\ \A c \in 1..3 : pc[c] = "done"
    /\ outcome[1] = "ok" /\ ~overlapped[1]
    /\ outcome[2] = "error" /\ overlapped[2]
    /\ outcome[3] = "ok" /\ ~overlapped[3]

\* C3: every admitted sendMessage eventually leaves the pipeline with the gate
\* reset, on every exit path, when the collaborators it awaits settle.
C3_GateEventuallyReleased ==
    (\E c \in Calls : InFlight(c)) ~> (~isProcessing /\ \A c \in Calls : ~InFlight(c))

\* An admitted call has ended with an error response and the gate is idle.
C3_Witness ==
    \E c \in Calls :
        /\ admitted[c]
        /\ pc[c] = "done"
        /\ outcome[c] = "error"
        /\ ~isProcessing

\* C4: sendMessage never rejects: every call settles to a response with an
\* assistant message that is either a normal message without error or an
\* apology with an error carrying a type and a message.
C4_AlwaysResolvesToResponse ==
    /\ delivered.call \in Calls =>
         /\ delivered.response.settled = "resolved"
         /\ delivered.response.message.role = "assistant"
         /\ NormalShape(delivered.response) # ErrorShape(delivered.response)
    /\ \A c \in Calls :
         pc[c] = "finally" =>
            /\ ret[c].settled = "resolved"
            /\ ret[c].message.role = "assistant"
            /\ NormalShape(ret[c]) # ErrorShape(ret[c])

\* A call whose save failed after generation settled to an error response.
C4_Witness ==
    /\ delivered.call \in Calls
    /\ delivered.response.error.message = SaveFailedMessage
    /\ delivered.response.settled = "resolved"

\* C5: a request rejected because the gate is Processing gets an error of
\* type validation that is not retryable.
C5_BusyIsValidationNonRetryable ==
    delivered.call \in Calls /\ ~admitted[delivered.call] =>
        /\ delivered.response.error.type = "validation"
        /\ delivered.response.error.retryable = FALSE

\* C6: a sendMessage rejected as busy changes nothing: the gate stays
\* Processing, the ledger and the call in flight are untouched, no collaborator
\* is called, and the rejected call never runs later.
C6_BusyRejectionChangesNothing ==
    [][\A c \in Calls :
          /\ (pc[c] = "init" /\ pc'[c] = "done") =>
                /\ isProcessing /\ isProcessing'
                /\ UNCHANGED <<ledger, locals, genCalls, valCalls, ctxCalls>>
                /\ \A d \in Calls \ {c} : pc'[d] = pc[d]
          /\ pc[c] = "done" => pc'[c] = "done"]_vars

\* A call has been turned away while the call in flight, which has appended
\* its user message, is still in the stream.
C6_Witness ==
    \E c, d \in Calls :
        /\ pc[c] = "done" /\ ~admitted[c]
        /\ pc[d] = "stream"
        /\ isProcessing
        /\ Len(messages) > 0

\* C7: when the validator returns isValid = false, sendMessage returns an
\* error of type validation whose content has the 'Message blocked' marker and
\* the validator's errors, the generator is never called and nothing is
\* appended to the history.
C7_InvalidInputIsBlocked ==
    \A c \in Calls :
        (/\ InFlight(c) /\ pc[c] # "validate"
         /\ enableSafetyFilter
         /\ ~validateRequest(arg[c]).isValid
         /\ thrown[c] = NoError)
        => /\ pc[c] = "finally"
           /\ ret[c].error.type = "validation"
           /\ Includes(ret[c].message.content, "Message blocked")
           /\ Includes(ret[c].message.content,
                       Join(validateRequest(arg[c]).errors, ", "))
           /\ genCalls[c] = 0
           /\ messages = entryMessages[c]

\* A blocked call is about to return, with a non-empty history behind it.
C7_Witness ==
    \E c \in Calls :
        /\ pc[c] = "finally"
        /\ ret[c].error.type = "validation"
        /\ arg[c] = "sudo rm -rf /"
        /\ Len(messages) > 0

\* The fragments of the generator the call consumed, in yield order.
YieldedText(c) == Join(gen[c].stream, "")

\* C8 as stated: on success the content is the sanitized concatenation of the
\* fragments, there is no error, and the history has grown by exactly the user
\* message followed by the assistant message.
C8_HistoryGrowsByTwo ==
    \A c \in Calls :
        pc[c] = "finally" /\ ret[c].error = NoErrorInfo =>
            /\ ret[c].message.content = sanitizeResponse(YieldedText(c))
            /\ messages = entryMessages[c] \o <<userMessage[c], ret[c].message>>

\* C8 amended: on success the content is the concatenation of the fragments in
\* yield order, sanitized when the safety filter is enabled; there is no
\* error; and the history is the old history with the user message and the
\* assistant message appended, cut to its last maxHistoryLength messages.
C8_SuccessAppendsTurnThenTrims ==
    \A c \in Calls :
        pc[c] = "finally" /\ ret[c].error = NoErrorInfo =>
            LET turn == entryMessages[c] \o <<userMessage[c], ret[c].message>>
                n == Len(turn)
            IN /\ ret[c].message.content =
                    IF enableSafetyFilter THEN sanitizeResponse(YieldedText(c))
                    ELSE YieldedText(c)
               /\ ret[c].message.role = "assistant"
               /\ userMessage[c].role = "user" /\ userMessage[c].content = arg[c]
               /\ messages = IF n <= MaxHistoryLength THEN turn
                             ELSE SubSeq(turn, n - MaxHistoryLength + 1, n)

\* A successful call returns sanitized content after its turn made the
\* history exceed maxHistoryLength.
C8_Witness ==
    \E c \in Calls :
        /\ pc[c] = "finally"
        /\ ret[c].error = NoErrorInfo
        /\ ret[c].message.content = "Hello [SCRIPT_REMOVED]world!"
        /\ Len(entryMessages[c]) + 2 > MaxHistoryLength
        /\ Len(messages) = MaxHistoryLength

\* C9 as stated: with retryAttempts = N, a generation that fails k < N times
\* and then succeeds has invoked the generator k + 1 times and the response is
\* the success result with no error; a generation that fails every time has
\* invoked the generator N times and the response is an error of type system
\* carrying the last attempt's error message.
C9_SuccessAfterRetryHasNoError ==
    \A c \in Calls :
        pc[c] = "finally" /\ genCalls[c] > 0 =>
            IF genFailures[c] < genCalls[c]
            THEN /\ genCalls[c] = genFailures[c] + 1
                 /\ ret[c].error = NoErrorInfo
                 /\ ret[c].message = assistantMessage[c]
            ELSE /\ genCalls[c] = RetryAttempts
                 /\ ret[c].error.type = "system"
                 /\ Includes(ret[c].error.message, genError[c])

\* C9 amended: a generation that fails k < N times and then succeeds has
\* invoked the generator k + 1 times and hands the success result to
\* sendMessage, whose response is that result with no error unless the save of
\* the trimmed history then fails, in which case it is a system error
\* 'Failed to save conversation'; a generation that fails every time has
\* invoked the generator N times and the response is an error of type system
\* carrying the last attempt's error message.
C9_RetryCountAndOutcome ==
    \A c \in Calls :
        pc[c] \in {"awaitGen", "trim", "awaitTrim", "catch", "finally"} /\ genCalls[c] > 0 =>
            IF genFailures[c] < genCalls[c]
            THEN /\ genCalls[c] = genFailures[c] + 1
                 /\ genCalls[c] <= RetryAttempts
                 /\ pc[c] \in {"awaitGen", "trim"} => thrown[c] = NoError
                 /\ thrown[c] \in {NoError, SaveFailedMessage}
                 /\ pc[c] = "finally" =>
                        IF thrown[c] = NoError
                        THEN /\ ret[c].error = NoErrorInfo
                             /\ ret[c].message = assistantMessage[c]
                        ELSE /\ ret[c].error.type = "system"
                             /\ ret[c].error.message = SaveFailedMessage
            ELSE /\ genCalls[c] = RetryAttempts
                 /\ thrown[c] = GenerationFailedPrefix \o genError[c]
                 /\ pc[c] = "finally" =>
                        /\ ret[c].error.type = "system"
                        /\ ret[c].error.message = GenerationFailedPrefix \o genError[c]
                        /\ Includes(ret[c].message.content, genError[c])

\* A call is about to return the success of its third attempt.
C9_Witness ==
    \E c \in Calls :
        /\ pc[c] = "finally"
        /\ genFailures[c] = 2 /\ genCalls[c] = 3
        /\ ret[c].error = NoErrorInfo

\* The sum of the first k delays of the linear backoff.
BackoffTotal(k) == RetryDelay * ((k * (k + 1)) \div 2)

AuthFailure == "Authentication failed - please check your API key"

\* C11: an authentication-class generation failure is not retried: after it
\* no delay is taken and the generator is not invoked again.
C11_AuthFailureNotRetried ==
    \A c \in Calls :
        genError[c] = AuthFailure =>
            /\ pc[c] # "delay"
            /\ genCalls[c] = genFailures[c]

\* The error types that createErrorResponse marks retryable.
RetryableTypes == {"network", "system"}

\* C12: for every error response produced by the pipeline, error.retryable is
\* true exactly when error.type is network or system, and false for validation
\* and auth.
C12_RetryableIffNetworkOrSystem ==
    /\ \A t \in ErrorTypes :
          createErrorResponse(0, "failure", t).error.retryable <=> t \in RetryableTypes
    /\ delivered.response.error # NoErrorInfo =>
          /\ delivered.response.error.type \in ErrorTypes
          /\ delivered.response.error.retryable
                <=> delivered.response.error.type \in RetryableTypes
    /\ \A c \in Calls :
          pc[c] = "finally" /\ ret[c].error # NoErrorInfo =>
              /\ ret[c].error.type \in ErrorTypes
              /\ ret[c].error.retryable <=> ret[c].error.type \in RetryableTypes

\* A validation error has been returned, not retryable, and a system error,
\* retryable, is about to be.
C12_Witness ==
    /\ delivered.response.error.type = "validation"
    /\ ~delivered.response.error.retryable
    /\ \E c \in Calls :
          /\ pc[c] = "finally"
          /\ ret[c].error.type = "system"
          /\ ret[c].error.retryable

\* The positions of a call at which its generation has not finished.
GeneratingPcs == {"attempt", "awaitSpec", "stream", "delay"}

\* C13 as stated: no message of the turn is appended to the ledger before the
\* generator has been driven to completion.
C13_NothingAppendedBeforeGeneration ==
    \A c \in Calls : pc[c] \in GeneratingPcs => messages = entryMessages[c]

\* C13 amended: the user message is appended after validation and context
\* gathering and before generation starts; the assistant message is appended
\* only after generation has finished and its output has been sanitized.
C13_UserBeforeAssistantAfterGeneration ==
    \A c \in Calls :
        /\ pc[c] \in {"validate", "gather", "awaitCtx", "addUser"} =>
              messages = entryMessages[c]
        /\ pc[c] \in GeneratingPcs \cup {"awaitGen"} =>
              messages = entryMessages[c] \o <<userMessage[c]>>
        /\ pc[c] = "trim" =>
              /\ messages = entryMessages[c] \o <<userMessage[c], assistantMessage[c]>>
              /\ gen[c].pos = Len(gen[c].stream)
              /\ assistantMessage[c].content =
                    IF enableSafetyFilter THEN sanitizeResponse(YieldedText(c))
                    ELSE YieldedText(c)

\* The generator is part way through its stream while the user message of
\* the turn is already the last message of the ledger.
C13_Witness ==
    \E c \in Calls :
        /\ pc[c] = "stream"
        /\ gen[c].pos < Len(gen[c].stream)
        /\ Len(messages) = Len(entryMessages[c]) + 1
        /\ messages[Len(messages)] = userMessage[c]

\* C14: whenever a call has returned, the history holds at most
\* maxHistoryLength messages.
C14_HistoryBoundedAfterReturn ==
    (\A c \in Calls : ~InFlight(c)) => Len(messages) <= MaxHistoryLength

\* ------------------------------------------- LLMService.generateResponse
DataPrefix == "data: "
DoneSentinel == "[DONE]"
NewLine == "\n"

\* The JSON text of a streamed delta around its content.
ContentOpen == "{\"choices\":[{\"delta\":{\"content\":\""
ContentClose == "\"}}]}"
ContentLine(text) == DataPrefix \o ContentOpen \o text \o ContentClose \o NewLine

\* The stream texts: a blank line and a data line that is not JSON between two
\* deltas; the sentinel followed by a further delta; a last line that has no
\* line end.
StreamTexts ==
    { ContentLine("Hi") \o NewLine \o "data: {oops" \o NewLine \o ContentLine("!"),
      ContentLine("Hi") \o DataPrefix \o DoneSentinel \o NewLine \o ContentLine("late"),
      ContentLine("a") \o DataPrefix \o ContentOpen \o "b" \o ContentClose }

\* The ways of cutting a text into MaxReads successive reads (a read may be
\* empty).
CutPoints(text) ==
    {cut \in [1..(MaxReads - 1) -> 0..Len(text)] :
        \A i, j \in 1..(MaxReads - 1) : i < j => cut[i] <= cut[j]}

Chunks(text, cut) ==
    [i \in 1..MaxReads |->
        SubSeq(text, (IF i = 1 THEN 0 ELSE cut[i - 1]) + 1,
                     IF i = MaxReads THEN Len(text) ELSE cut[i])]

\* What makeStreamingRequest can settle with.
OkResponse == [ok |-> TRUE, status |-> "200", statusText |-> "OK", body |-> TRUE,
               rejects |-> NoError]
FailedStatuses ==
    { <<"401", "Unauthorized">>, <<"403", "Forbidden">>, <<"404", "Not Found">>,
      <<"429", "Too Many Requests">>, <<"500", "Internal Server Error">>,
      <<"503", "Service Unavailable">> }
FailedResponses ==
    { [ok |-> FALSE, status |-> st[1], statusText |-> st[2], body |-> FALSE,
       rejects |-> NoError] : st \in FailedStatuses }
    \cup { [ok |-> TRUE, status |-> "200", statusText |-> "OK", body |-> FALSE,
            rejects |-> NoError] }
    \cup { [ok |-> FALSE, status |-> "", statusText |-> "", body |-> FALSE,
            rejects |-> e] : e \in {"AbortError", "fetch failed"} }

ReadFailure == "network connection lost"
NoBodyMessage == "No response body available"

\* Line 513.
HttpErrorMessage(r) == "HTTP " \o r.status \o ": " \o r.statusText

\* createLLMError, lines 694-712, of an Error with the given name and message.
createLLMError(name, message) ==
    IF name = "AbortError"
    THEN "Request timeout - the LLM service took too long to respond"
    ELSE IF Includes(message, "401") THEN AuthFailure
    ELSE IF Includes(message, "429") THEN "Rate limit exceeded - please try again later"
    ELSE IF Includes(message, "500") THEN "LLM service is temporarily unavailable"
    ELSE message

\* The index of the first line end of s at or after i, or 0.
RECURSIVE LineEndFrom(_, _)
LineEndFrom(s, i) ==
    IF i > Len(s) THEN 0
    ELSE IF SubSeq(s, i, i) = NewLine THEN i
    ELSE LineEndFrom(s, i + 1)

\* Line 531: buffer.split('\n')
RECURSIVE SplitLines(_)
SplitLines(s) ==
    LET i == LineEndFrom(s, 1)
    IN IF i = 0 THEN <<s>>
       ELSE <<SubSeq(s, 1, i - 1)>> \o SplitLines(SubSeq(s, i + 1, Len(s)))

\* Lines 531-532: the lines that are complete, all but the last piece.
CompleteLines(parts) == SubSeq(parts, 1, Len(parts) - 1)

\* A buffer that forgets the piece held back.
HeldBackDropped(parts) == ""

\* Line 532: lines.pop() || ''
HeldBack(parts) == parts[Len(parts)]

\* Line 535: line.trim() === ''
IsBlank(line) == \A i \in 1..Len(line) : SubSeq(line, i, i) \in {" ", "\t", "\r"}

\* Lines 536-537.
IsDataLine(line) == StartsWithAt(line, 1, DataPrefix)
DataOf(line) == SubSeq(line, Len(DataPrefix) + 1, Len(line))

\* A sentinel that is not recognised.
IsDoneNever(data) == FALSE

\* Line 538.
IsDone(data) == data = DoneSentinel

\* JSON.parse(data) and parsed.choices?.[0]?.delta?.content (lines 541-542),
\* on the payloads of StreamTexts: a delta object with a content string that
\* has no quote or escape in it, the empty object, and texts that are not JSON.
HasContentShape(data) ==
    /\ Len(data) >= Len(ContentOpen) + Len(ContentClose)
    /\ StartsWithAt(data, 1, ContentOpen)
    /\ StartsWithAt(data, Len(data) - Len(ContentClose) + 1, ContentClose)
    /\ ~Includes(SubSeq(data, Len(ContentOpen) + 1, Len(data) - Len(ContentClose)), "\"")

ParsesAsJson(data) == data = "{}" \/ HasContentShape(data)

ContentOf(data) ==
    IF HasContentShape(data)
    THEN SubSeq(data, Len(ContentOpen) + 1, Len(data) - Len(ContentClose))
    ELSE ""

\* Where the generator goes on after a line: the next line, or the next read.
AfterLine(rest) == IF rest = <<>> THEN "read" ELSE "lines"

\* A parse failure that ends the generator.
AfterMalformedAborts(rest) == "threw"

\* Lines 546-548: the parse failure is logged and the loop goes on.
AfterMalformed(rest) == AfterLine(rest)

\* A release that does nothing.
ReleaseLockSkipped(n) == n

\* Line 553.
ReleaseLock(n) == n + 1

\* A consumer is about to iterate a fresh generator: the request will settle
\* with a failure, or with a body whose text arrives cut into reads, after
\* which read() reports the end or fails.
StreamInit ==
    /\ PipelineStart(TRUE, TRUE)
    /\ BudgetIdle
    /\ UnitsIdle
    /\ \/ /\ httpResponse = OkResponse
          /\ \E text \in StreamTexts : \E cut \in CutPoints(text) :
                wire = Chunks(text, cut)
          /\ wireEnd \in {"done", "error"}
       \/ /\ httpResponse \in FailedResponses
          /\ wire = <<>>
          /\ wireEnd = "done"
    /\ gpc = "start"
    /\ reads = 0
    /\ buffer = ""
    /\ lines = <<>>
    /\ yielded = <<>>
    /\ released = 0
    /\ acquired = FALSE
    /\ streamError = NoError
    /\ doneSeen = FALSE
    /\ malformedSeen = FALSE
    /\ abandoned = FALSE

\* Lines 510-519: the request settles; a failure, a non-success status or a
\* missing body goes to the catch block at line 555; otherwise the reader is
\* acquired.
Request ==
    /\ gpc = "start"
    /\ IF httpResponse.rejects # NoError
       THEN /\ streamError' = createLLMError(httpResponse.rejects, httpResponse.rejects)
            /\ gpc' = "threw"
            /\ UNCHANGED acquired
       ELSE IF ~httpResponse.ok
       THEN /\ streamError' = createLLMError("Error", HttpErrorMessage(httpResponse))
            /\ gpc' = "threw"
            /\ UNCHANGED acquired
       ELSE IF ~httpResponse.body
       THEN /\ streamError' = createLLMError("Error", NoBodyMessage)
            /\ gpc' = "threw"
            /\ UNCHANGED acquired
       ELSE /\ acquired' = TRUE
            /\ gpc' = "read"
            /\ UNCHANGED streamError
    /\ UNCHANGED <<httpResponse, wire, wireEnd, reads, buffer, lines, yielded, released,
                   doneSeen, malformedSeen, abandoned>>
    /\ UNCHANGED beyondStream

\* Lines 526-532 and 552-556: read() settles.  A value is added to the buffer,
\* which is split into lines; the end of the stream leaves the loop; a failure
\* is thrown.  Leaving the try block releases the reader.
Read ==
    /\ gpc = "read"
    /\ reads' = reads + 1
    /\ IF reads < Len(wire)
       THEN LET parts == SplitLines(buffer \o wire[reads + 1])
            IN /\ lines' = CompleteLines(parts)
               /\ buffer' = HeldBack(parts)
               /\ gpc' = AfterLine(CompleteLines(parts))
               /\ UNCHANGED <<released, streamError>>
       ELSE /\ released' = ReleaseLock(released)
            /\ IF wireEnd = "done"
               THEN gpc' = "ended" /\ UNCHANGED streamError
               ELSE /\ gpc' = "threw"
                    /\ streamError' = createLLMError("Error", ReadFailure)
            /\ UNCHANGED <<lines, buffer>>
    /\ UNCHANGED <<httpResponse, wire, wireEnd, yielded, acquired, doneSeen,
                   malformedSeen, abandoned>>
    /\ UNCHANGED beyondStream

\* Lines 534-550: the for loop visits its next line.
VisitLine ==
    /\ gpc = "lines"
    /\ lines # <<>>
    /\ LET line == Head(lines)
           rest == Tail(lines)
           data == DataOf(line)
       IN /\ lines' = rest
          /\ doneSeen' = (doneSeen \/ line = DataPrefix \o DoneSentinel)
          /\ malformedSeen' =
                (malformedSeen \/ (IsDataLine(line) /\ data # DoneSentinel
                                   /\ ~ParsesAsJson(data)))
          /\ IF IsBlank(line) \/ ~IsDataLine(line)
             THEN gpc' = AfterLine(rest) /\ UNCHANGED <<yielded, released>>
             ELSE IF IsDone(data)
             THEN /\ released' = ReleaseLock(released)
                  /\ gpc' = "ended"
                  /\ UNCHANGED yielded
             ELSE IF ~ParsesAsJson(data)
             THEN gpc' = AfterMalformed(rest) /\ UNCHANGED <<yielded, released>>
             ELSE IF ContentOf(data) # ""
             THEN /\ yielded' = Append(yielded, ContentOf(data))
                  /\ gpc' = "yielded"
                  /\ UNCHANGED released
             ELSE gpc' = AfterLine(rest) /\ UNCHANGED <<yielded, released>>
    /\ UNCHANGED <<httpResponse, wire, wireEnd, reads, buffer, acquired, streamError,
                   abandoned>>
    /\ UNCHANGED beyondStream

\* The consumer asks for the next fragment: the generator resumes after the
\* yield at line 544.
Resume ==
    /\ gpc = "yielded"
    /\ gpc' = AfterLine(lines)
    /\ UNCHANGED <<httpResponse, wire, wireEnd, reads, buffer, lines, yielded, released,
                   acquired, streamError, doneSeen, malformedSeen, abandoned>>
    /\ UNCHANGED beyondStream

\* The consumer leaves its for await loop: the generator's return() runs the
\* finally block at line 552 from the yield.
Abandon ==
    /\ gpc = "yielded"
    /\ released' = ReleaseLock(released)
    /\ abandoned' = TRUE
    /\ gpc' = "ended"
    /\ UNCHANGED <<httpResponse, wire, wireEnd, reads, buffer, lines, yielded, acquired,
                   streamError, doneSeen, malformedSeen>>
    /\ UNCHANGED beyondStream

StreamNext ==
    \/ Request
    \/ Read
    \/ VisitLine
    \/ Resume
    \/ Abandon

StreamSpec == StreamInit /\ [][StreamNext]_vars

\* The fragments of the lines ls, visited in order up to the sentinel.
RECURSIVE FragmentsOf(_)
FragmentsOf(ls) ==
    IF ls = <<>> THEN <<>>
    ELSE LET line == Head(ls)
             data == DataOf(line)
         IN IF IsBlank(line) \/ ~IsDataLine(line) THEN FragmentsOf(Tail(ls))
            ELSE IF data = DoneSentinel THEN <<>>
            ELSE IF ParsesAsJson(data) /\ ContentOf(data) # ""
            THEN <<ContentOf(data)>> \o FragmentsOf(Tail(ls))
            ELSE FragmentsOf(Tail(ls))

\* What generateResponse yields when the whole text arrives in a single read.
SingleReadFragments(text) == FragmentsOf(CompleteLines(SplitLines(text)))

\* The text on the wire, whatever its cutting.
WireText == Join(wire, "")

\* C15: for any stream text and any way of cutting it into successive reads,
\* generateResponse yields the same ordered sequence of fragments as when the
\* whole text arrives in a single read.  (The fragments received change only
\* at a yield, and are complete when the generator has ended.)
C15_SplitInvariance ==
    gpc \in {"yielded", "ended", "threw"} =>
        LET expected == SingleReadFragments(WireText)
        IN /\ Len(yielded) <= Len(expected)
           /\ yielded = SubSeq(expected, 1, Len(yielded))
           /\ (gpc # "yielded" /\ acquired /\ ~abandoned) => yielded = expected

\* A text cut in the middle of its last line has been consumed to its end.
C15_Witness ==
    /\ gpc = "ended" /\ ~abandoned
    /\ Len(wire[1]) > 60 /\ Len(wire[2]) > 10
    /\ ~StartsWithAt(wire[1], Len(wire[1]), NewLine)
    /\ yielded = <<"Hi", "!">>

\* C16: on reading the line 'data: [DONE]' the fragment sequence ends at once:
\* no later line, held-back text or later read gives a fragment, and no
\* further read is issued.
C16_DoneEndsSequence ==
    /\ [](doneSeen => gpc = "ended" /\ released = 1)
    /\ [][doneSeen => /\ yielded' = yielded
                      /\ reads' = reads
                      /\ lines' = lines
                      /\ buffer' = buffer]_vars

\* The sentinel has ended the generator with a later line of the same read
\* unvisited and a read not made.
C16_Witness ==
    /\ doneSeen
    /\ gpc = "ended"
    /\ lines # <<>>
    /\ reads < Len(wire)
    /\ yielded = <<"Hi">>

\* C17: once a reader has been acquired it is released exactly once on every
\* way the generator ends, never twice, and is not released while the
\* generator runs; without a reader nothing is released.
C17_ReaderReleasedExactlyOnce ==
    /\ released <= 1
    /\ released = 1 <=> (acquired /\ gpc \in {"ended", "threw"})

\* The consumer has abandoned the iteration and the reader is released.
C17_Witness ==
    /\ abandoned
    /\ gpc = "ended"
    /\ released = 1
    /\ reads < Len(wire)

\* C18: when the initiating call returns a non-success status, generateResponse
\* fails before yielding any fragment with an error whose message is
\* 'HTTP <status>: <statusText>'.
C18_StatusErrorCarriesHttpStatus ==
    (gpc = "threw" /\ httpResponse.rejects = NoError /\ ~httpResponse.ok) =>
        /\ yielded = <<>>
        /\ streamError = HttpErrorMessage(httpResponse)

\* The visit of a data line whose payload is not JSON.
VisitsMalformed ==
    /\ gpc = "lines"
    /\ lines # <<>>
    /\ IsDataLine(Head(lines))
    /\ DataOf(Head(lines)) # DoneSentinel
    /\ ~ParsesAsJson(DataOf(Head(lines)))

\* C19: a data line whose payload is not valid JSON is skipped without ending
\* or failing the stream: the fragments of the well-formed lines before and
\* after it are still yielded, in order.
C19_MalformedLineSkipped ==
    /\ [][VisitsMalformed => /\ lines' = Tail(lines)
                             /\ gpc' = AfterLine(Tail(lines))
                             /\ UNCHANGED <<yielded, released, streamError, buffer,
                                            reads>>]_vars
    /\ []((malformedSeen /\ gpc = "ended" /\ ~abandoned) =>
             /\ streamError = NoError
             /\ yielded = SingleReadFragments(WireText))

\* The fragments before and after the malformed line have both been yielded.
C19_Witness ==
    /\ malformedSeen
    /\ gpc = "ended"
    /\ yielded = <<"Hi", "!">>

\* ------------------------------- TokenManager and optimizeForTokenLimits
\* The prompts and contexts: every prefix of a text, so that their lengths
\* run from those within the budget to those far over it.  The texts hold no
\* comment line, white space or import statement.
PromptText == "Explain"
ContextText == "abcdefghijklmnopqrstuvwxyz"
Prefixes(text) == {SubSeq(text, 1, n) : n \in 0..Len(text)}
Prompts == Prefixes(PromptText)
Contexts == Prefixes(ContextText)

\* String.prototype.substring(start)
Substring(s, start) ==
    LET from == IF start < 0 THEN 0 ELSE IF start > Len(s) THEN Len(s) ELSE start
    IN SubSeq(s, from + 1, Len(s))

\* removeNonEssentialContent, part_002 lines 178-218: it removes comment
\* lines, runs of white space and import statements, of which the texts of
\* Contexts have none.
removeNonEssentialContent(context, tokensToSave) == context

\* An optimizePrompt that logs a truncation whatever the sizes are.
optimizePromptAlwaysLogging(prompt, context, targetTokens) ==
    [optimizedPrompt |-> prompt,
     removedContent |-> <<[what |-> "Truncated", characters |-> 0]>>,
     tokensSaved |-> 0]

\* TokenManager.optimizePrompt, part_002 lines 53-96.  The context it has cut
\* is a local of it: the result holds the prompt, which is never changed, the
\* log of what was removed and the tokens saved.
optimizePrompt(prompt, context, targetTokens) ==
    LET currentTokens == estimateTokens(prompt \o context)
        tokensToSave == currentTokens - targetTokens
        contextTokens == estimateTokens(context)
        truncates == contextTokens > tokensToSave
        targetContextLength == (contextTokens - tokensToSave) * CHARS_PER_TOKEN
        truncated == Substring(context, contextTokens - targetContextLength)
        afterTruncation == IF truncates THEN truncated ELSE context
        stillToSave == IF truncates
                       THEN tokensToSave - (contextTokens - estimateTokens(truncated))
                       ELSE tokensToSave
        optimizedContext == IF stillToSave > 0
                            THEN removeNonEssentialContent(afterTruncation, stillToSave)
                            ELSE afterTruncation
    IN IF currentTokens <= targetTokens
       THEN [optimizedPrompt |-> prompt, removedContent |-> <<>>, tokensSaved |-> 0]
       ELSE [optimizedPrompt |-> prompt,
             removedContent |->
                 IF truncates
                 THEN <<[what |-> "Truncated",
                         characters |-> Len(context) - Len(truncated)]>>
                 ELSE <<>>,
             tokensSaved |-> currentTokens - estimateTokens(prompt \o optimizedContext)]

\* An optimizeForTokenLimits that cuts the prompt down to the budget.
optimizeForTokenLimitsCuttingPrompt(prompt, context) ==
    [optimizedPrompt |-> SubSeq(prompt, 1, IF Len(prompt) < MaxTokens THEN Len(prompt)
                                           ELSE MaxTokens),
     optimizedContext |-> context,
     saved |-> 0]

\* LLMService.optimizeForTokenLimits, SafetyFilter.ts lines 615-647, with an
\* empty history.
optimizeForTokenLimits(prompt, context) ==
    LET result == optimizePrompt(prompt, context, MaxTokens)
        originalTokens == estimateTokens(prompt \o context)
        optimizedTokens == estimateTokens(result.optimizedPrompt \o context)
    IN [optimizedPrompt |-> result.optimizedPrompt,
        optimizedContext |-> context,
        saved |-> originalTokens - optimizedTokens]

BudgetInit ==
    /\ PipelineStart(TRUE, TRUE)
    /\ StreamIdle
    /\ UnitsIdle
    /\ budgetPrompt \in Prompts
    /\ budgetContext \in Contexts
    /\ bpc = "start"
    /\ optimization = NoOptimization
    /\ handed = NothingHanded

\* ChatManager.generateResponse, part_001 lines 189-193.
Optimize ==
    /\ bpc = "start"
    /\ optimization' = optimizeForTokenLimits(budgetPrompt, budgetContext)
    /\ bpc' = "optimized"
    /\ UNCHANGED <<budgetPrompt, budgetContext, handed>>
    /\ UNCHANGED beyondBudget

\* Lines 200-203: the generator is called with the optimised prompt and
\* context.
HandOver ==
    /\ bpc = "optimized"
    /\ handed' = [prompt |-> optimization.optimizedPrompt,
                  context |-> optimization.optimizedContext]
    /\ bpc' = "generating"
    /\ UNCHANGED <<budgetPrompt, budgetContext, optimization>>
    /\ UNCHANGED beyondBudget

BudgetNext ==
    \/ Optimize
    \/ HandOver

BudgetSpec == BudgetInit /\ [][BudgetNext]_vars

\* The context alone can absorb the deficit: it has more tokens than the
\* prompt and context together are over the budget.
ContextAbsorbsDeficit(prompt, context) ==
    estimateTokens(context) > estimateTokens(prompt \o context) - MaxTokens

\* C20: the prompt and context handed to the generator after
\* optimizeForTokenLimits satisfy estimateTokens(prompt + context) <= maxTokens
\* whenever the context alone is large enough to absorb the deficit.
C20_HandedTextWithinBudget ==
    (bpc = "generating" /\ ContextAbsorbsDeficit(budgetPrompt, budgetContext)) =>
        estimateTokens(handed.prompt \o handed.context) <= MaxTokens

\* ------------------------------------------- TokenManager, the other parts
\* String.prototype.repeat
RECURSIVE Repeated(_, _)
Repeated(text, count) == IF count = 0 THEN "" ELSE text \o Repeated(text, count - 1)

\* A field of a message context, "" when the context does not have it.
TextOf(context, field) == IF field \in DOMAIN context THEN context[field] ELSE ""

\* context.workspaceFiles, empty when the context does not have it.
FilesOf(context) ==
    IF "workspaceFiles" \in DOMAIN context THEN context.workspaceFiles ELSE <<>>

\* Lines 44-46: workspaceFiles.reduce((sum, file) => sum + estimateTokens(file), 0)
RECURSIVE SumFileTokens(_)
SumFileTokens(files) ==
    IF files = <<>> THEN 0
    ELSE estimateTokens(Head(files)) + SumFileTokens(Tail(files))

\* TokenManager.calculateMessageTokens, part_002 lines 26-51.
calculateMessageTokens(message) ==
    LET activeFile == TextOf(message.context, "activeFile")
        selectedText == TextOf(message.context, "selectedText")
    IN 4 + estimateTokens(message.content)
         + IF message.context = NoContext THEN 0
           ELSE (IF activeFile # "" THEN estimateTokens(activeFile) ELSE 0)
                + (IF selectedText # "" THEN estimateTokens(selectedText) ELSE 0)
                + SumFileTokens(FilesOf(message.context))

\* Line 144: history.reduce((sum, msg) => sum + calculateMessageTokens(msg), 0)
RECURSIVE SumMessageTokens(_)
SumMessageTokens(list) ==
    IF list = <<>> THEN 0
    ELSE calculateMessageTokens(Head(list)) + SumMessageTokens(Tail(list))

TruncationMark == "... [truncated]"

\* A truncated copy that is given an identity of its own.
truncateMessageRenumbered(message, maxTokens) ==
    [message EXCEPT !.id = 0 - message.id,
                    !.content = SubSeq(@, 1, 1) \o TruncationMark]

\* TokenManager.truncateMessage, part_002 lines 220-239; NoMessage is null.
truncateMessage(message, maxTokens) ==
    LET availableContentTokens == maxTokens - 10
        maxContentLength == availableContentTokens * CHARS_PER_TOKEN
    IN IF availableContentTokens < 20 THEN NoMessage
       ELSE IF Len(message.content) <= maxContentLength THEN message
       ELSE [message EXCEPT
               !.content = SubSeq(@, 1, maxContentLength - 20) \o TruncationMark,
               !.metadata = [tokenCount |-> @.tokenCount, present |-> @.present,
                             truncated |-> TRUE]]

\* Line 99: maxHistoryTokens || Math.floor(contextWindow * MAX_CONTEXT_RATIO),
\* the ratio being 0.7; 0 stands for a maxHistoryTokens that is not given.
historyTokensOf(maxHistoryTokens) ==
    IF maxHistoryTokens = 0 THEN (ContextWindow * 7) \div 10 ELSE maxHistoryTokens

\* Lines 111-129: the loop from remainingMessages[i] backwards, tokensSoFar
\* being the local totalTokens.
RECURSIVE KeepBackwards(_, _, _, _, _)
KeepBackwards(remainingMessages, i, tokensSoFar, maxTokens, optimizedMessages) ==
    IF i < 1 THEN optimizedMessages
    ELSE LET message == remainingMessages[i]
             messageTokens == calculateMessageTokens(message)
             availableTokens == maxTokens - tokensSoFar
             truncatedMessage == truncateMessage(message, availableTokens)
         IN IF tokensSoFar + messageTokens <= maxTokens
            THEN KeepBackwards(remainingMessages, i - 1, tokensSoFar + messageTokens,
                               maxTokens, <<message>> \o optimizedMessages)
            ELSE IF availableTokens > 50 /\ truncatedMessage # NoMessage
                 THEN <<truncatedMessage>> \o optimizedMessages
                 ELSE optimizedMessages

\* TokenManager.optimizeConversationHistory, part_002 lines 98-132.
optimizeConversationHistory(list, maxHistoryTokens) ==
    IF Len(list) = 0 THEN list
    ELSE LET lastMessage == list[Len(list)]
             remainingMessages == SubSeq(list, 1, Len(list) - 1)
         IN KeepBackwards(remainingMessages, Len(remainingMessages),
                          calculateMessageTokens(lastMessage),
                          historyTokensOf(maxHistoryTokens), <<lastMessage>>)

\* The lists of messages handed over: user and assistant messages in turn,
\* each with an id of its own.
HistoryOf(contents) ==
    [i \in 1..Len(contents) |->
        IF i % 2 = 1 THEN createUserMessage(i, contents[i])
        ELSE createAssistantMessage(i, contents[i])]

ListsOf(values) ==
    UNION {[1..n -> values] : n \in 0..MaxListLength}

ShortContent == "Hello"
MediumContent == Repeated("0123456789", 12)
LongContent == Repeated("0123456789", 40)
HistoryContents == {ShortContent, MediumContent, LongContent}
HistoryBudgets == {0, 60, 100, 150}

\* The context of the test 'should include context tokens': 3 + 5 tokens.
SelectionContext ==
    [activeFile |-> "src/main.ts", selectedText |-> "console.log(\"test\");"]

\* The messages of a list, each carrying the context.
WithContext(list, context) ==
    [i \in 1..Len(list) |-> [list[i] EXCEPT !.context = context]]

OptimizeHistoryCalls ==
    [messages : {WithContext(HistoryOf(contents), context) :
                     contents \in ListsOf(HistoryContents),
                     context \in {NoContext, SelectionContext}},
     maxHistoryTokens : HistoryBudgets]

EstimateTokensCalls == [text : Contexts \cup {"Hello world"}]

MessageContexts ==
    {NoContext,
     GatheredContext,
     [activeFile |-> "src/main.ts", selectedText |-> "console.log(\"test\");"],
     [selectedText |-> "let x", workspaceFiles |-> <<"a.ts", "src/index.ts">>],
     [activeFile |-> "", selectedText |-> "", workspaceFiles |-> <<>>],
     [activeFile |-> "src/main.ts", selectedText |-> "x",
      workspaceFiles |-> <<"src/main.ts", "b.ts", "README.md">>]}

CalculateMessageTokensCalls ==
    [message : {[createUserMessage(1, content) EXCEPT !.context = context] :
                    content \in Contexts \cup {"Hello world"},
                    context \in MessageContexts}]

\* A prompt counted as very long once it is over a quarter of maxTokens.
VeryLongPromptAtQuarter(promptTokens) == 4 * promptTokens > MaxTokens

\* Line 161: promptTokens > this.maxTokens * 0.5
VeryLongPrompt(promptTokens) == 2 * promptTokens > MaxTokens

\* The text pushed when the flag is set, nothing otherwise.
PushedIf(flag, text) == IF flag THEN <<text>> ELSE <<>>

\* TokenManager.validateTokenLimits, part_002 lines 134-176.  The comparisons
\* with 0.1 * maxTokens and 0.3 * contextWindow are made in tenths; the first
\* issue is given without the two numbers the code puts into its text.
validateTokenLimits(prompt, context, list) ==
    LET promptTokens == estimateTokens(prompt)
        contextTokens == estimateTokens(context)
        historyTokens == SumMessageTokens(list)
        total == promptTokens + contextTokens + historyTokens
        availableForCompletion == ContextWindow - total
        overWindow == total > ContextWindow
        littleSpace == 10 * availableForCompletion < MaxTokens
        longPrompt == VeryLongPrompt(promptTokens)
        largeContext == 10 * contextTokens > 3 * ContextWindow
        issues ==
            PushedIf(overWindow, "Total tokens exceed context window")
            \o PushedIf(littleSpace, "Very little space left for LLM response")
            \o PushedIf(longPrompt, "Prompt is very long")
            \o PushedIf(largeContext, "Context is very large")
        suggestions ==
            PushedIf(overWindow,
                     "Consider reducing conversation history or context length")
            \o PushedIf(littleSpace,
                        "Reduce input length to allow for meaningful response")
            \o PushedIf(longPrompt,
                        "Consider breaking down the request into smaller parts")
            \o PushedIf(largeContext,
                        "Consider reducing workspace context or selected text")
    IN [isValid |-> Len(issues) = 0, issues |-> issues, suggestions |-> suggestions]

\* Prompts and contexts of 0, 3, 6, ... characters, and histories of short
\* messages.
EveryThird(texts) == {text \in texts : Len(text) % 3 = 0}

ValidateTokenLimitsCalls ==
    [prompt : EveryThird(Contexts), context : EveryThird(Contexts),
     history : {HistoryOf(contents) : contents \in ListsOf({ShortContent})}]

\* ------------------------------------- ChatManager, what follows a response
UpperCaseLetters == "ABCDEFGHIJKLMNOPQRSTUVWXYZ"
LowerCaseLetters == "abcdefghijklmnopqrstuvwxyz"

\* The lower case form of one character.
LowerOf(ch) ==
    LET places == {i \in 1..Len(UpperCaseLetters) : SubSeq(UpperCaseLetters, i, i) = ch}
    IN IF places = {} THEN ch
       ELSE LET i == CHOOSE i \in places : TRUE IN SubSeq(LowerCaseLetters, i, i)

\* String.prototype.toLowerCase: character by character, the text being
\* taken apart in halves.
RECURSIVE toLowerCase(_)
toLowerCase(text) ==
    IF Len(text) <= 1 THEN LowerOf(text)
    ELSE toLowerCase(SubSeq(text, 1, Len(text) \div 2))
         \o toLowerCase(SubSeq(text, Len(text) \div 2 + 1, Len(text)))

CodeSuggestions == <<"Explain this code", "Add error handling", "Write tests for this">>
ErrorSuggestions ==
    <<"How can I debug this?", "Show me the stack trace", "What are common causes?">>
SpecSuggestions == <<"Create a new spec", "Update the design", "Generate tasks">>
GenericSuggestions ==
    <<"Can you elaborate?", "Show me an example", "What are the alternatives?">>

\* A first group that only the word 'code' brings up.
MentionsCodeOnly(content) == Includes(content, "code")

\* part_001 line 292: content.includes('code') || content.includes('function')
MentionsCode(content) == Includes(content, "code") \/ Includes(content, "function")

\* Array.prototype.slice(0, count)
FirstOf(seq, count) == SubSeq(seq, 1, IF Len(seq) < count THEN Len(seq) ELSE count)

\* ChatManager.generateSuggestions, part_001 lines 287-318, of the content of
\* the assistant message.
generateSuggestions(text) ==
    LET content == toLowerCase(text)
        matched ==
            (IF MentionsCode(content) THEN CodeSuggestions ELSE <<>>)
            \o (IF Includes(content, "error") \/ Includes(content, "bug")
                THEN ErrorSuggestions ELSE <<>>)
            \o (IF Includes(content, "spec") \/ Includes(content, "requirements")
                THEN SpecSuggestions ELSE <<>>)
        suggestions == IF Len(matched) < 3 THEN matched \o GenericSuggestions
                       ELSE matched
    IN FirstOf(suggestions, 3)

SuggestionTexts ==
    {"", "Hello there",
     "Here is some code: function test() { return true; }",
     "This Function returns early",
     "An ERROR occurred", "That looks like a bug",
     "Update the Spec", "The REQUIREMENTS changed",
     "Fix the bug in the code", "A bug in the spec",
     "The code follows the spec, but an error remains"}

GenerateSuggestionsCalls == [content : SuggestionTexts]

\* The characters \w matches.
WordCharacters ==
    UpperCaseLetters \o LowerCaseLetters \o "0123456789_"

IsWordCharacter(ch) ==
    \E i \in 1..Len(WordCharacters) : SubSeq(WordCharacters, i, i) = ch

\* The first index >= i of s that holds no word character, Len(s) + 1 if none.
WordEnd(s, i) ==
    LET ends == {j \in i..Len(s) : ~IsWordCharacter(SubSeq(s, j, j))}
    IN IF ends = {} THEN Len(s) + 1 ELSE CHOOSE j \in ends : \A k \in ends : j <= k

\* The three backquotes that open and close a code block.  A string of this
\* module cannot hold a backquote: the tilde, which no text here uses for
\* anything else, stands for it.
Fence == "~~~"

\* The matches of the codeBlockRegex of line 325, a pattern of fence, (\w+)?,
\* \n, ([\s\S]*?) and fence with the g flag, from index i on: a fence, the
\* longest run of word characters, a line end, and the shortest text up to the
\* next fence; the search goes on after that fence.  A language of "" is the
\* group that did not take part.
RECURSIVE CodeBlocksFrom(_, _)
CodeBlocksFrom(s, i) ==
    LET open == IndexOfFrom(s, Fence, i)
        word == WordEnd(s, open + Len(Fence))
        close == IndexOfFrom(s, Fence, word + 1)
    IN IF open = 0 THEN <<>>
       ELSE IF StartsWithAt(s, word, "\n") /\ close > 0
            THEN <<[at |-> open,
                    language |-> SubSeq(s, open + Len(Fence), word - 1),
                    code |-> SubSeq(s, word + 1, close - 1)]>>
                 \o CodeBlocksFrom(s, close + Len(Fence))
            ELSE CodeBlocksFrom(s, open + 1)

NoPayload == [name \in {} |-> ""]

CreateFile(block) ==
    [type |-> "create_file",
     payload |-> [content |-> block.code, language |-> block.language],
     description |-> "Create " \o block.language \o " file with this code"]

CreateSpec ==
    [type |-> "create_spec", payload |-> NoPayload,
     description |-> "Create a new feature spec"]

\* Line 332: code.length > 50 && language
Substantial(block) == Len(block.code) > 50 /\ block.language # ""

\* Lines 328-340: the create_file actions of the blocks, in the order found.
RECURSIVE FileActions(_)
FileActions(blocks) ==
    IF blocks = <<>> THEN <<>>
    ELSE (IF Substantial(Head(blocks)) THEN <<CreateFile(Head(blocks))>> ELSE <<>>)
         \o FileActions(Tail(blocks))

\* Line 343: the text mentions 'create' and 'spec'.
MentionsSpecCreation(content) ==
    Includes(toLowerCase(content), "create") /\ Includes(toLowerCase(content), "spec")

\* ChatManager.extractActions, part_001 lines 320-351, of the content of the
\* assistant message.
extractActions(content) ==
    FileActions(CodeBlocksFrom(content, 1))
    \o (IF MentionsSpecCreation(content) THEN <<CreateSpec>> ELSE <<>>)

Code60 == Repeated("let value = 1;\n", 4)
Code50 == Repeated("0123456789", 5)
HelloFunction == "function hello() { console.log(\"Hello\"); }\n"
Fenced(language, code) == Fence \o language \o "\n" \o code \o Fence

ActionTexts ==
    {"Hello there",
     "Please CREATE the Spec",
     "Here is the code:\n" \o Fenced("typescript", HelloFunction),
     "Here is the code:\n" \o Fenced("typescript", Code60),
     Fenced("", Code60),
     Fenced("js", Code50),
     Fenced("js", Code50 \o "0"),
     Fence \o "python\n" \o Code60,
     Fenced("python", Code60) \o "\nand\n" \o Fenced("typescript", Code60),
     "Create a spec first.\n" \o Fenced("typescript", Code60),
     Fenced("typescript", Code60) \o "\nNow create the Spec.",
     Fenced("python", Code60) \o "\nCreate the spec, then:\n" \o Fenced("typescript", Code60)}

ExtractActionsCalls == [content : ActionTexts]

\* ------------------------------------------------- calls of pure functions
\* A TokenManager is built with maxTokens and contextWindow (part_002 line
\* 19) and keeps nothing else: here MaxTokens and ContextWindow.  The two
\* functions of ChatManager read the message given and nothing else.  One run
\* makes one call, with arguments drawn from the sets below, and repeats it.

\* Line 54: maxTokens || this.maxTokens.  A caller that gives no maxTokens
\* gives 0 here: undefined and 0 are both replaced.
targetTokensOf(maxTokens) == IF maxTokens = 0 THEN MaxTokens ELSE maxTokens

Targets == 0..(MaxTokens + 2)
OptimizePromptCalls == [prompt : Prompts, context : Contexts, maxTokens : Targets]
OptimizeForTokenLimitsCalls == [prompt : Prompts, context : Contexts]

CallsOf(name) ==
    CASE name = "optimizePrompt" -> OptimizePromptCalls
      [] name = "optimizeForTokenLimits" -> OptimizeForTokenLimitsCalls
      [] name = "optimizeConversationHistory" -> OptimizeHistoryCalls
      [] name = "estimateTokens" -> EstimateTokensCalls
      [] name = "calculateMessageTokens" -> CalculateMessageTokensCalls
      [] name = "validateTokenLimits" -> ValidateTokenLimitsCalls
      [] name = "generateSuggestions" -> GenerateSuggestionsCalls
      [] name = "extractActions" -> ExtractActionsCalls

FunctionNames ==
    {"optimizePrompt", "optimizeForTokenLimits", "optimizeConversationHistory",
     "estimateTokens", "calculateMessageTokens", "validateTokenLimits",
     "generateSuggestions", "extractActions"}

CallsInit ==
    /\ PipelineStart(TRUE, TRUE)
    /\ StreamIdle
    /\ BudgetIdle
    /\ ManagerIdle
    /\ CacheIdle
    /\ fnName \in FunctionNames
    /\ fnArgs \in CallsOf(fnName)
    /\ fnReturns = 0
    /\ fnResult = NoCall

\* The function named returns result.
Returns(name, result) ==
    /\ fnName = name
    /\ fnReturns < MaxRepeats
    /\ fnResult' = result
    /\ fnReturns' = fnReturns + 1
    /\ UNCHANGED <<fnName, fnArgs>>
    /\ UNCHANGED beyondCalls

CallOptimizePrompt ==
    /\ fnName = "optimizePrompt"
    /\ Returns("optimizePrompt",
               optimizePrompt(fnArgs.prompt, fnArgs.context,
                              targetTokensOf(fnArgs.maxTokens)))

CallOptimizeForTokenLimits ==
    /\ fnName = "optimizeForTokenLimits"
    /\ Returns("optimizeForTokenLimits",
               optimizeForTokenLimits(fnArgs.prompt, fnArgs.context))

CallOptimizeConversationHistory ==
    /\ fnName = "optimizeConversationHistory"
    /\ Returns("optimizeConversationHistory",
               optimizeConversationHistory(fnArgs.messages, fnArgs.maxHistoryTokens))

CallEstimateTokens ==
    /\ fnName = "estimateTokens"
    /\ Returns("estimateTokens", estimateTokens(fnArgs.text))

CallCalculateMessageTokens ==
    /\ fnName = "calculateMessageTokens"
    /\ Returns("calculateMessageTokens", calculateMessageTokens(fnArgs.message))

CallValidateTokenLimits ==
    /\ fnName = "validateTokenLimits"
    /\ Returns("validateTokenLimits",
               validateTokenLimits(fnArgs.prompt, fnArgs.context, fnArgs.history))

CallGenerateSuggestions ==
    /\ fnName = "generateSuggestions"
    /\ Returns("generateSuggestions", generateSuggestions(fnArgs.content))

CallExtractActions ==
    /\ fnName = "extractActions"
    /\ Returns("extractActions", extractActions(fnArgs.content))

CallsNext ==
    \/ CallOptimizePrompt
    \/ CallOptimizeForTokenLimits
    \/ CallOptimizeConversationHistory
    \/ CallEstimateTokens
    \/ CallCalculateMessageTokens
    \/ CallValidateTokenLimits
    \/ CallGenerateSuggestions
    \/ CallExtractActions

CallsSpec == CallsInit /\ [][CallsNext]_vars

Returned(name) == fnName = name /\ fnReturns > 0

\* C21: optimizePrompt is a no-op whenever estimateTokens(prompt + context)
\* is at most the target: it returns the prompt unchanged, tokensSaved = 0
\* and an empty removal log.
C21_NoOpWithinTarget ==
    (/\ Returned("optimizePrompt")
     /\ estimateTokens(fnArgs.prompt \o fnArgs.context)
            <= targetTokensOf(fnArgs.maxTokens)) =>
        fnResult = [optimizedPrompt |-> fnArgs.prompt,
                    removedContent |-> <<>>,
                    tokensSaved |-> 0]

C21_Witness ==
    /\ Returned("optimizePrompt")
    /\ fnArgs.prompt # ""
    /\ fnArgs.context # ""
    /\ fnArgs.maxTokens > 0
    /\ estimateTokens(fnArgs.prompt \o fnArgs.context) = fnArgs.maxTokens
    /\ fnResult.tokensSaved = 0

\* The tokens by which prompt and context are over the target.
Deficit(prompt, context, maxTokens) ==
    estimateTokens(prompt \o context) - targetTokensOf(maxTokens)

\* C22: when estimateTokens(prompt + context) exceeds the target and the
\* context's tokens exceed the deficit, optimizePrompt drops characters from
\* the start of the context so that the deficit is covered: tokensSaved is at
\* least the deficit, hence positive, and the removal log is not empty and
\* states a removed amount that is not zero.
C22_TruncationCoversDeficit ==
    (/\ Returned("optimizePrompt")
     /\ Deficit(fnArgs.prompt, fnArgs.context, fnArgs.maxTokens) > 0
     /\ estimateTokens(fnArgs.context)
            > Deficit(fnArgs.prompt, fnArgs.context, fnArgs.maxTokens)) =>
        /\ fnResult.tokensSaved
               >= Deficit(fnArgs.prompt, fnArgs.context, fnArgs.maxTokens)
        /\ fnResult.removedContent # <<>>
        /\ fnResult.removedContent[1].characters > 0

\* C23: for every prompt, context and target, the optimizedPrompt returned by
\* optimizePrompt, and by optimizeForTokenLimits, is the input prompt.
C23_PromptNeverCut ==
    (Returned("optimizePrompt") \/ Returned("optimizeForTokenLimits")) =>
        fnResult.optimizedPrompt = fnArgs.prompt

C23_Witness ==
    /\ Returned("optimizeForTokenLimits")
    /\ fnArgs.prompt = PromptText
    /\ estimateTokens(fnArgs.prompt \o fnArgs.context) > MaxTokens
    /\ fnResult.optimizedPrompt = fnArgs.prompt

\* A copy of a message made by truncateMessage: the same id and role, the
\* content cut and marked, metadata.truncated set.
IsTruncatedCopy(copy, original) ==
    /\ copy.id = original.id
    /\ copy.role = original.role
    /\ Len(copy.content) < Len(original.content)
    /\ "truncated" \in DOMAIN copy.metadata
    /\ copy.metadata.truncated

\* C24: for a non-empty list optimizeConversationHistory returns a list whose
\* last element is the input's last message as it was, that is no longer than
\* the input, and whose elements are, in order, the messages of a contiguous
\* suffix of the input, each the original or a truncated copy with the same
\* id; for the empty list it returns the empty list.
C24_HistoryIsSuffix ==
    Returned("optimizeConversationHistory") =>
        LET input == fnArgs.messages
            kept == Len(fnResult)
            dropped == Len(input) - kept
        IN IF input = <<>> THEN fnResult = <<>>
           ELSE /\ kept >= 1
                /\ kept <= Len(input)
                /\ fnResult[kept] = input[Len(input)]
                /\ \A j \in 1..kept :
                       \/ fnResult[j].metadata = input[dropped + j].metadata
                          /\ fnResult[j] = input[dropped + j]
                       \/ IsTruncatedCopy(fnResult[j], input[dropped + j])

\* A list of three is cut to two, the first of them a truncated copy.
C24_Witness ==
    /\ Returned("optimizeConversationHistory")
    /\ Len(fnArgs.messages) = 3
    /\ Len(fnResult) = 2
    /\ IsTruncatedCopy(fnResult[1], fnArgs.messages[2])
    /\ fnResult[2] = fnArgs.messages[3]

\* ceil(length / 4): the least whole number of fours that covers length.
CeilingOfQuarter(length) ==
    CHOOSE k \in 0..length : 4 * k >= length /\ 4 * (k - 1) < length

ExpectedEstimate(text) == IF text = "" THEN 0 ELSE CeilingOfQuarter(Len(text))

RECURSIVE ExpectedFileEstimates(_)
ExpectedFileEstimates(files) ==
    IF files = <<>> THEN 0
    ELSE ExpectedEstimate(Head(files)) + ExpectedFileEstimates(Tail(files))

\* What C25 expects of each function for the arguments of the call.
EstimatesAsExpected ==
    /\ Returned("estimateTokens") => fnResult = ExpectedEstimate(fnArgs.text)
    /\ Returned("calculateMessageTokens") =>
           LET context == fnArgs.message.context
           IN fnResult =
                  4 + ExpectedEstimate(fnArgs.message.content)
                    + IF context = NoContext THEN 0
                      ELSE ExpectedEstimate(TextOf(context, "activeFile"))
                           + ExpectedEstimate(TextOf(context, "selectedText"))
                           + ExpectedFileEstimates(FilesOf(context))

\* C25: estimateTokens(s) = ceil(len(s)/4) for every non-empty s and 0 for the
\* empty text; calculateMessageTokens(m) = 4 + the estimate of the content +
\* the estimates of activeFile, selectedText and each workspace file path when
\* present; and a call repeated with the same arguments returns what it
\* returned before.
C25_EstimateIsPureCeiling ==
    /\ []EstimatesAsExpected
    /\ [][(fnName \in {"estimateTokens", "calculateMessageTokens"} /\ fnReturns > 0)
             => fnResult' = fnResult]_vars

\* A message of 'Hello world' (3 tokens) with all three context fields has
\* been measured twice.
C25_Witness ==
    /\ Returned("calculateMessageTokens")
    /\ fnReturns = 2
    /\ fnArgs.message.content = "Hello world"
    /\ Len(FilesOf(fnArgs.message.context)) = 3
    /\ fnResult = (4 + 3) + 3 + 1 + (3 + 1 + 3)

\* The elements of a sequence.
Range(seq) == {seq[i] : i \in 1..Len(seq)}

\* The suggestion the code pushes together with an issue.
SuggestionFor(issue) ==
    CASE issue = "Total tokens exceed context window" ->
             "Consider reducing conversation history or context length"
      [] issue = "Very little space left for LLM response" ->
             "Reduce input length to allow for meaningful response"
      [] issue = "Prompt is very long" ->
             "Consider breaking down the request into smaller parts"
      [] issue = "Context is very large" ->
             "Consider reducing workspace context or selected text"

\* C26: validateTokenLimits flags exactly these issues, each paired with one
\* suggestion: total (prompt + context + history tokens) > contextWindow;
\* contextWindow - total < 10% of maxTokens; prompt tokens > 50% of maxTokens;
\* context tokens > 30% of contextWindow.  isValid is true exactly when no
\* issue is flagged.
C26_IssuesMatchThresholds ==
    Returned("validateTokenLimits") =>
        LET promptTokens == estimateTokens(fnArgs.prompt)
            contextTokens == estimateTokens(fnArgs.context)
            total == promptTokens + contextTokens + SumMessageTokens(fnArgs.history)
            flagged == Range(fnResult.issues)
        IN /\ ("Total tokens exceed context window" \in flagged)
                  <=> total > ContextWindow
           /\ ("Very little space left for LLM response" \in flagged)
                  <=> 100 * (ContextWindow - total) < 10 * MaxTokens
           /\ ("Prompt is very long" \in flagged)
                  <=> 100 * promptTokens > 50 * MaxTokens
           /\ ("Context is very large" \in flagged)
                  <=> 100 * contextTokens > 30 * ContextWindow
           /\ Cardinality(flagged) = Len(fnResult.issues)
           /\ Len(fnResult.suggestions) = Len(fnResult.issues)
           /\ \A i \in 1..Len(fnResult.issues) :
                  fnResult.suggestions[i] = SuggestionFor(fnResult.issues[i])
           /\ fnResult.isValid <=> flagged = {}

\* Only the prompt is flagged: the case of the test 'should provide helpful
\* suggestions'.
C26_Witness ==
    /\ Returned("validateTokenLimits")
    /\ fnResult.issues = <<"Prompt is very long">>
    /\ fnResult.suggestions = <<"Consider breaking down the request into smaller parts">>
    /\ ~fnResult.isValid

\* ------------------------------- operations on ConversationStateManager
\* What JSON.parse makes of a text: a value with its kind.
JsonUndefined == [kind |-> "undefined"]
JsonNull == [kind |-> "null"]
JsonNumber(n) == [kind |-> "number", value |-> n]
JsonString(text) == [kind |-> "string", value |-> text]
JsonArray(elements) == [kind |-> "array", elements |-> elements]
JsonObject(fields) == [kind |-> "object", fields |-> fields]

NoFields == [name \in {} |-> JsonUndefined]

ImportedMessage ==
    JsonObject([role |-> JsonString("user"), content |-> JsonString("Imported message")])

\* The texts handed to importConversation, each with what JSON.parse does
\* with it: a value, or a SyntaxError.
ImportTexts ==
    {"invalid json", "", "{\"messages\":", "null", "0", "5", "{}",
     "{\"title\":\"Imported Chat\"}", "{\"messages\":null}", "{\"messages\":5}",
     "{\"messages\":[]}",
     "{\"title\":\"Imported Chat\",\"messages\":[{\"role\":\"user\",\"content\":\"Imported message\"}]}"}

JsonParse(text) ==
    CASE text = "null" -> [ok |-> TRUE, value |-> JsonNull]
      [] text = "0" -> [ok |-> TRUE, value |-> JsonNumber(0)]
      [] text = "5" -> [ok |-> TRUE, value |-> JsonNumber(5)]
      [] text = "{}" -> [ok |-> TRUE, value |-> JsonObject(NoFields)]
      [] text = "{\"title\":\"Imported Chat\"}" ->
             [ok |-> TRUE, value |-> JsonObject([title |-> JsonString("Imported Chat")])]
      [] text = "{\"messages\":null}" ->
             [ok |-> TRUE, value |-> JsonObject([messages |-> JsonNull])]
      [] text = "{\"messages\":5}" ->
             [ok |-> TRUE, value |-> JsonObject([messages |-> JsonNumber(5)])]
      [] text = "{\"messages\":[]}" ->
             [ok |-> TRUE, value |-> JsonObject([messages |-> JsonArray(<<>>)])]
      [] text = "{\"title\":\"Imported Chat\",\"messages\":[{\"role\":\"user\",\"content\":\"Imported message\"}]}" ->
             [ok |-> TRUE,
              value |-> JsonObject([title |-> JsonString("Imported Chat"),
                                    messages |-> JsonArray(<<ImportedMessage>>)])]
      [] OTHER -> [ok |-> FALSE, value |-> JsonUndefined]

\* SerializationUtils.safeParse, serializationUtils.ts lines 81-88.
safeParse(jsonString) ==
    IF JsonParse(jsonString).ok THEN JsonParse(jsonString).value ELSE JsonNull

\* value.name, for a value that is not null.
Field(value, name) ==
    IF value.kind = "object" /\ name \in DOMAIN value.fields
    THEN value.fields[name]
    ELSE JsonUndefined

\* Whether !value is false.
Truthy(value) ==
    CASE value.kind \in {"undefined", "null"} -> FALSE
      [] value.kind = "number" -> value.value # 0
      [] value.kind = "string" -> value.value # ""
      [] OTHER -> TRUE

\* An import that takes every text.
InvalidImportNever(importData) == FALSE

\* Line 234: !importData || !importData.messages
InvalidImport(importData) ==
    ~Truthy(importData) \/ ~Truthy(Field(importData, "messages"))

InvalidDataMessage == "Invalid conversation data"
TypeErrorMessage == "TypeError"
DefaultImportTitle == "Imported Conversation"

\* generateConversationId and generateMessageId: ids nothing else has.
FreshId == 100 + 10 * opCount

\* Lines 238-253: the conversation made of importData.
ImportedConversation(importData, title) ==
    LET imported == Field(importData, "messages").elements
        importedTitle == Field(importData, "title")
    IN [id |-> FreshId,
        title |-> IF title # "" THEN title
                  ELSE IF Truthy(importedTitle) THEN importedTitle.value
                  ELSE DefaultImportTitle,
        messages |-> [i \in 1..Len(imported) |->
                         [id |-> FreshId + i,
                          role |-> Field(imported[i], "role").value,
                          content |-> Field(imported[i], "content").value]],
        messageCount |-> Len(imported),
        totalTokens |-> 0]

\* One more operation is made, of which lastOp keeps the arguments.
Operation(op) ==
    /\ opCount < MaxOps
    /\ opCount' = opCount + 1
    /\ lastOp' = op

LedgerTitles == {"", "Mine"}

\* ConversationStateManager.importConversation, lines 232-257.  importData of
\* null has no messages to read, and messages that are no array have no map:
\* both are TypeErrors.
ImportConversation ==
    \E data \in ImportTexts, title \in LedgerTitles :
        LET importData == safeParse(data)
            op == [name |-> "importConversation", data |-> data, title |-> title]
        IN /\ Operation(op)
           /\ IF InvalidImport(importData)
              THEN /\ opError' = InvalidDataMessage
                   /\ UNCHANGED <<saves, written>>
              ELSE IF ~Truthy(importData) \/ Field(importData, "messages").kind # "array"
              THEN /\ opError' = TypeErrorMessage
                   /\ UNCHANGED <<saves, written>>
              ELSE /\ saves' = saves + 1
                   /\ \E saved \in SaveOutcomes :
                        IF saved
                        THEN /\ written' = ImportedConversation(importData, title)
                             /\ opError' = NoError
                        ELSE /\ opError' = SaveFailedMessage
                             /\ UNCHANGED written
           /\ UNCHANGED <<ledger, currentId>>
           /\ UNCHANGED beyondLedger

LedgerContents == {"Hello", "Hi there"}

\* The token count a caller has put on a message before adding it: 10 on
\* 'Hello' (ConversationStateManager.test.ts lines 98-99), none on the other.
CountedTokens == 10
LedgerMetadata(content) ==
    IF content = "Hello" THEN [tokenCount |-> CountedTokens, present |-> TRUE]
    ELSE NoMetadata

LedgerMessage(id, content) ==
    [createUserMessage(id, content) EXCEPT !.metadata = LedgerMetadata(content)]

\* What the storage holds under the key of the imported conversation after a
\* save of the current conversation: the current conversation when it is the
\* one that was imported (it was loaded since), and what it held otherwise.
KeptInStorage(saved) ==
    IF saved /\ written # NoConversation /\ currentId = written.id
    THEN [written EXCEPT !.messages = messages',
                         !.messageCount = messageCount',
                         !.totalTokens = totalTokens']
    ELSE written

\* ConversationStateManager.addMessage, lines 153-173, called directly.
AddMessage ==
    \E content \in LedgerContents :
        /\ Operation([name |-> "addMessage", content |-> content])
        /\ addMessage(LedgerMessage(FreshId, content))
        /\ saves' = saves + 1
        /\ opError' = NoError
        /\ written' = KeptInStorage(TRUE)
        /\ UNCHANGED currentId
        /\ UNCHANGED beyondLedger

\* Line 191: maxMessages || this.config.maxHistoryLength; 0 also stands for a
\* maxMessages that is not given.
limitOf(maxMessages) == IF maxMessages = 0 THEN MaxHistoryLength ELSE maxMessages

\* ConversationStateManager.trimConversationHistory, lines 188-206, called
\* directly.
TrimConversationHistory ==
    \E maxMessages \in 0..MaxOps :
        /\ Operation([name |-> "trimConversationHistory", maxMessages |-> maxMessages])
        /\ IF Len(messages) <= limitOf(maxMessages)
           THEN /\ opError' = NoError
                /\ UNCHANGED <<ledger, saves, written>>
           ELSE /\ messages' = TrimmedMessages(messages, limitOf(maxMessages))
                /\ messageCount' = Len(TrimmedMessages(messages, limitOf(maxMessages)))
                /\ UNCHANGED totalTokens
                /\ saves' = saves + 1
                /\ \E saved \in SaveOutcomes :
                     /\ IF saved
                        THEN /\ stored' = TrimmedMessages(messages, limitOf(maxMessages))
                             /\ opError' = NoError
                        ELSE /\ opError' = SaveFailedMessage
                             /\ UNCHANGED stored
                     /\ written' = KeptInStorage(saved)
        /\ UNCHANGED currentId
        /\ UNCHANGED beyondLedger

\* ConversationStateManager.createNewConversation, lines 47-63: the new
\* conversation is current before its save is awaited, and stays current when
\* the save fails.  Nothing is stored under its key before that save.
CreateNewConversation ==
    /\ Operation([name |-> "createNewConversation"])
    /\ currentId' = FreshId
    /\ messages' = <<>>
    /\ messageCount' = 0
    /\ totalTokens' = 0
    /\ stored' = <<>>
    /\ saves' = saves + 1
    /\ \E saved \in SaveOutcomes :
         opError' = IF saved THEN NoError ELSE SaveFailedMessage
    /\ UNCHANGED written
    /\ UNCHANGED beyondLedger

\* ConversationStateManager.clearCurrentConversation, lines 179-186: nothing
\* is saved.
ClearCurrentConversation ==
    /\ Operation([name |-> "clearCurrentConversation"])
    /\ messages' = <<>>
    /\ messageCount' = 0
    /\ totalTokens' = 0
    /\ opError' = NoError
    /\ UNCHANGED <<stored, saves, currentId, written>>
    /\ UNCHANGED beyondLedger

NotFoundMessage == "Conversation not found"

\* An id under which the storage holds nothing.
UnknownId == 999

\* The ids exportConversation is called with: none (0), the id of the
\* conversation that was imported, and one the storage does not know.
ExportIds == {0, UnknownId} \cup {written.id}

\* Whether the storage holds a conversation under the id, for an id other than
\* that of a conversation this manager created.
Holds(conversationId) == written # NoConversation /\ conversationId = written.id

\* ConversationStateManager.loadConversation, lines 65-87: the conversation
\* read from storage is made current (line 81); without one, null is returned
\* and nothing changes.
loadConversation(conversationId) ==
    IF Holds(conversationId)
    THEN /\ currentId' = written.id
         /\ messages' = written.messages
         /\ messageCount' = written.messageCount
         /\ totalTokens' = written.totalTokens
         /\ stored' = written.messages
    ELSE UNCHANGED <<ledger, currentId>>

\* ConversationStateManager.exportConversation, lines 208-230.  The current
\* conversation is never null here, so that without an id there is always
\* something to export.
ExportConversation ==
    \E conversationId \in ExportIds :
        /\ Operation([name |-> "exportConversation", conversationId |-> conversationId])
        /\ IF conversationId # 0
           THEN /\ loadConversation(conversationId)
                /\ opError' = IF Holds(conversationId) THEN NoError ELSE NotFoundMessage
           ELSE /\ opError' = NoError
                /\ UNCHANGED <<ledger, currentId>>
        /\ UNCHANGED <<saves, written>>
        /\ UNCHANGED beyondLedger

\* ChatManager.loadConversation, lines 149-151.
LoadConversation ==
    \E conversationId \in {UnknownId, written.id} :
        /\ Operation([name |-> "loadConversation", conversationId |-> conversationId])
        /\ loadConversation(conversationId)
        /\ opError' = NoError
        /\ UNCHANGED <<saves, written>>
        /\ UNCHANGED beyondLedger

LedgerInit ==
    /\ PipelineStart(TRUE, TRUE)
    /\ StreamIdle
    /\ BudgetIdle
    /\ CallsIdle
    /\ ManagerIdle
    /\ CacheIdle

LedgerNext ==
    \/ AddMessage
    \/ TrimConversationHistory
    \/ ImportConversation
    \/ CreateNewConversation
    \/ ClearCurrentConversation
    \/ ExportConversation

LedgerSpec == LedgerInit /\ [][LedgerNext]_vars

\* The text is no JSON, or what it parses to has no messages field.
Malformed(data) ==
    \/ ~JsonParse(data).ok
    \/ Field(JsonParse(data).value, "messages") = JsonUndefined

Did(name) == lastOp'.name = name /\ opCount' = opCount + 1

\* C27: when the input of importConversation is not parseable JSON or has no
\* messages field, it rejects with 'Invalid conversation data', nothing is
\* written to storage, and the current conversation is unchanged.
C27_MalformedImportRejected ==
    [][(Did("importConversation") /\ Malformed(lastOp'.data)) =>
           /\ opError' = InvalidDataMessage
           /\ saves' = saves
           /\ written' = written
           /\ stored' = stored
           /\ currentId' = currentId
           /\ <<messages, messageCount, totalTokens>>' = <<messages, messageCount, totalTokens>>]_vars

\* 'invalid json' was refused while the conversation held messages.
C27_Witness ==
    /\ lastOp.name = "importConversation"
    /\ lastOp.data = "invalid json"
    /\ opError = InvalidDataMessage
    /\ Len(messages) >= 2
    /\ saves = Len(messages)

\* The last count elements of a sequence, in their order.
LastOf(seq, count) == [i \in 1..count |-> seq[Len(seq) - count + i]]

\* What C28 says of a trimConversationHistory(limit), for the limits given.
TrimsTo(limits) ==
    (Did("trimConversationHistory") /\ lastOp'.maxMessages \in limits) =>
        LET limit == lastOp'.maxMessages
        IN IF Len(messages) > limit
           THEN /\ messages' = LastOf(messages, limit)
                /\ messageCount' = limit
           ELSE /\ UNCHANGED ledger
                /\ saves' = saves

\* C28: trimConversationHistory(limit) on a conversation with more than limit
\* messages leaves exactly the last limit messages in their original order
\* and sets messageCount to limit; when the conversation has at most limit
\* messages it changes nothing and does not save.
C28_TrimKeepsLastLimit == [][TrimsTo(0..MaxOps)]_vars

\* Whether one of the words occurs in the text, whatever the case of letters.
MentionsAny(text, words) == \E word \in words : Includes(toLowerCase(text), word)

\* C29: generateSuggestions returns at most 3 suggestions, in the code always
\* exactly 3: they come from the keyword groups matched in the lower-cased
\* response, taken in the fixed order code/function, error/bug,
\* spec/requirements, and the generic suggestions are used only when keyword
\* matching produced fewer than 3.
C29_ThreeSuggestionsByGroup ==
    Returned("generateSuggestions") =>
        /\ Len(fnResult) = 3
        /\ fnResult =
               IF MentionsAny(fnArgs.content, {"code", "function"}) THEN CodeSuggestions
               ELSE IF MentionsAny(fnArgs.content, {"error", "bug"}) THEN ErrorSuggestions
               ELSE IF MentionsAny(fnArgs.content, {"spec", "requirements"})
                    THEN SpecSuggestions
               ELSE GenericSuggestions

\* A response whose only keyword starts with a capital letter.
C29_Witness ==
    /\ Returned("generateSuggestions")
    /\ fnArgs.content = "This Function returns early"
    /\ fnResult = CodeSuggestions

\* The index at which the text has mentioned both 'create' and 'spec',
\* whatever the case of letters; 0 when it never has.
SpecCreationAt(content) ==
    LET create == IndexOfFrom(toLowerCase(content), "create", 1)
        spec == IndexOfFrom(toLowerCase(content), "spec", 1)
    IN IF create = 0 \/ spec = 0 THEN 0
       ELSE IF create > spec THEN create ELSE spec

\* The actions C30 expects: a create_file for each block with a language and
\* more than 50 characters of code, a create_spec for the mention, in the
\* order of the text.
ActionsInTextOrder(content) ==
    LET blocks == CodeBlocksFrom(content, 1)
        mention == SpecCreationAt(content)
    IN IF mention = 0 THEN FileActions(blocks)
       ELSE FileActions(SelectSeq(blocks, LAMBDA block : block.at < mention))
            \o <<CreateSpec>>
            \o FileActions(SelectSeq(blocks, LAMBDA block : block.at > mention))

\* C30: extractActions emits one create_file action, with the code and
\* language as payload, for each fenced code block that has a language tag
\* and whose code is longer than 50 characters, and a create_spec action with
\* empty payload when the text contains both 'create' and 'spec'
\* case-insensitively; the actions appear in the order in which their
\* triggers appear in the text.
C30_ActionsFollowTextOrder ==
    Returned("extractActions") => fnResult = ActionsInTextOrder(fnArgs.content)

\* C31: whenever the last message alone fits within maxHistoryTokens, the sum
\* of calculateMessageTokens over the list returned by
\* optimizeConversationHistory is at most maxHistoryTokens, also when the
\* overflowing message is included as a copy cut to fit and when messages
\* carry context fields.
C31_HistoryWithinBudget ==
    (/\ Returned("optimizeConversationHistory")
     /\ fnArgs.messages # <<>>
     /\ calculateMessageTokens(fnArgs.messages[Len(fnArgs.messages)])
            <= historyTokensOf(fnArgs.maxHistoryTokens)) =>
        SumMessageTokens(fnResult) <= historyTokensOf(fnArgs.maxHistoryTokens)


\* C32: after any sequence of createNewConversation, addMessage,
\* clearCurrentConversation and trimConversationHistory, metadata.messageCount
\* of the current conversation is the length of its messages, and addMessage
\* puts the very message it is given at the end of the list, after the
\* messages that were there.
C32_CountIsLength ==
    /\ [](messageCount = Len(messages))
    /\ [][Did("addMessage") =>
             messages' = Append(messages, LedgerMessage(FreshId, lastOp'.content))]_vars

\* A second message was added to a conversation that createNewConversation
\* made.
C32_Witness ==
    /\ lastOp.name = "addMessage"
    /\ currentId > 100
    /\ currentId # written.id
    /\ Len(messages) = 2
    /\ messageCount = 2
    /\ messages[2].content = lastOp.content


TokenCountOf(message) ==
    IF "metadata" \in DOMAIN message /\ message.metadata.present
    THEN message.metadata.tokenCount
    ELSE 0

RECURSIVE SumTokenCounts(_)
SumTokenCounts(list) ==
    IF list = <<>> THEN 0
    ELSE TokenCountOf(Head(list)) + SumTokenCounts(Tail(list))

\* C37: after any sequence of addMessage, clearCurrentConversation and
\* trimConversationHistory on a conversation made by createNewConversation,
\* metadata.totalTokens is the sum of metadata.tokenCount over the messages
\* the conversation holds.
C37_TotalIsSumOfCounts ==
    totalTokens = SumTokenCounts(messages)


\* C38: when the generator has ended without being abandoned, every data line
\* that was received has given its fragment, the last line too when the read
\* reported the end before its line end arrived.
C38_LastLineYielded ==
    (gpc = "ended" /\ ~abandoned) => yielded = FragmentsOf(SplitLines(WireText))


\* Whether the list holds a message with the id.
HoldsId(list, id) == \E i \in 1..Len(list) : list[i].id = id

\* C33: when sendMessage settles, its response carries an error exactly when
\* the assistant message of the call is not in the history: no error response
\* leaves an assistant reply of its turn behind, also when trimming or saving
\* failed after the generation, and the message of every response without
\* error is in the history.
C33_ErrorIffNoReply ==
    [][\A c \in 1..MaxCalls :
          outcome'[c] # outcome[c] =>
              (outcome'[c] = "error" <=> ~HoldsId(messages', AssistantMessageId(c)))]_vars


\* The default count of getRecentHistory, line 281.
RecentHistoryCount == 10

\* ChatManager.getRecentHistory, lines 281-285: messages.slice(0, -1).slice(-count)
getRecentHistory(list, count) ==
    LET earlier == SubSeq(list, 1, Len(list) - 1)
    IN IF Len(earlier) <= count THEN earlier ELSE LastOf(earlier, count)

\* The step puts a message with the id at the end of the history.
Appended(id) ==
    /\ Len(messages') = Len(messages) + 1
    /\ messages'[Len(messages')].id = id

\* C34: for one sendMessage call, whatever the number of generation attempts,
\* the user message is added to the history at most once (before the first
\* attempt, when the history does not hold it) and the assistant message at
\* most once (after the generation, when the history does not hold it), and
\* the history handed to each attempt does not hold the user message of the
\* call.
C34_RetriesKeepOneTurn ==
    [][\A c \in 1..MaxCalls :
          /\ Appended(UserMessageId(c)) =>
                 /\ ~HoldsId(messages, UserMessageId(c))
                 /\ pc[c] = "addUser"
                 /\ genCalls[c] = 0
          /\ Appended(AssistantMessageId(c)) =>
                 /\ ~HoldsId(messages, AssistantMessageId(c))
                 /\ pc[c] = "awaitGen"
                 /\ pc'[c] = "trim"
          /\ (pc[c] = "awaitSpec" /\ pc'[c] = "stream") =>
                 ~HoldsId(getRecentHistory(messages, RecentHistoryCount),
                          UserMessageId(c))]_vars

\* An assistant message was added after more than one attempt, and the history
\* holds the user message of the call once, right before it.
C34_Witness ==
    \E c \in 1..MaxCalls :
        /\ pc[c] = "trim"
        /\ genCalls[c] >= 2
        /\ Len(messages) >= 2
        /\ messages[Len(messages)].id = AssistantMessageId(c)
        /\ messages[Len(messages) - 1].id = UserMessageId(c)
        /\ Cardinality({i \in 1..Len(messages) : messages[i].id = UserMessageId(c)}) = 1


\* ------------------------------ sendMessage among the other operations
\* The operations made on the ChatManager while a sendMessage is suspended.
MaxIntrusions == 1   \* operations made from outside during the calls

\* The one text of ImportTexts that holds a message.
StoredImport ==
    "{\"title\":\"Imported Chat\",\"messages\":[{\"role\":\"user\",\"content\":\"Imported message\"}]}"

\* A ChatManager whose storage holds a conversation that was imported before,
\* by the one operation made so far.
TurnInit ==
    /\ PipelineStart(TRUE, TRUE)
    /\ StreamIdle
    /\ BudgetIdle
    /\ CallsIdle
    /\ CacheIdle
    /\ lastOp = [name |-> "importConversation", data |-> StoredImport, title |-> ""]
    /\ opError = NoError
    /\ saves = 1
    /\ opCount = 1
    /\ currentId = 1
    /\ written = [ImportedConversation(safeParse(StoredImport), "") EXCEPT !.id = 100]

\* clearHistory, addMessage, createNewConversation, loadConversation and
\* exportConversation of ChatManager (lines 131-163) hand over to the state
\* manager.  They start as tasks of their own, when no other code runs.
Intruding == EventLoopFree /\ opCount <= MaxIntrusions

TurnNext ==
    \/ LiveNext
    \/ Intruding /\ ClearCurrentConversation
    \/ Intruding /\ AddMessage
    \/ Intruding /\ CreateNewConversation
    \/ Intruding /\ LoadConversation
    \/ Intruding /\ ExportConversation

TurnSpec == TurnInit /\ [][TurnNext]_vars

\* C35: the assistant message of a sendMessage is added to the conversation
\* that holds its user message, directly after it, whatever clearHistory,
\* addMessage, createNewConversation, loadConversation or exportConversation
\* did while the call was suspended.
C35_ReplyFollowsItsQuestion ==
    [][\A c \in 1..MaxCalls :
          Appended(AssistantMessageId(c)) =>
              /\ messages # <<>>
              /\ messages[Len(messages)].id = UserMessageId(c)]_vars


\* ------------------------------------------- ContextManager.gatherContext
\* Line 27, in milliseconds.
CACHE_TTL == 30000

\* The times at which something is made to happen: the first milliseconds,
\* and the milliseconds around one CACHE_TTL later.
Instants == (0..MaxTicks) \cup {CACHE_TTL - 1 + i : i \in 0..MaxTicks}

\* Two of the context types of line 46.
ContextTypes == {"file", "git"}

\* Line 37: the template string of the type and Date.now(), as the pair of them.
CacheKey(type, time) == <<type, time>>

\* Line 40: there is an entry under the key and it is younger than CACHE_TTL.
Fresh(key) ==
    /\ key \in DOMAIN contextCache
    /\ now - contextCache[key].timestamp < CACHE_TTL

\* Map.set, line 66.
MapSet(map, key, value) ==
    [k \in DOMAIN map \cup {key} |-> IF k = key THEN value ELSE map[k]]

\* Lines 36-64: gatherContext is called; what the cache holds under the key
\* is returned, or the gathering of the type starts, which calls the adapters
\* (lines 155-260).
GatherContext(g) ==
    /\ gather[g].pc = "init"
    /\ \A h \in Gathers : h < g => gather[h].pc # "init"
    /\ \E type \in ContextTypes :
         LET cacheKey == CacheKey(type, now)
         IN IF Fresh(cacheKey)
            THEN /\ gather' = [gather EXCEPT
                       ![g] = [pc |-> "done", type |-> type, key |-> cacheKey,
                               data |-> contextCache[cacheKey].data, cached |-> TRUE,
                               doneAt |-> now]]
                 /\ UNCHANGED adapterCalls
            ELSE /\ gather' = [gather EXCEPT
                       ![g] = [NoGather EXCEPT !.pc = "gathering", !.type = type,
                                               !.key = cacheKey]]
                 /\ adapterCalls' = adapterCalls + 1
    /\ UNCHANGED <<now, contextCache>>
    /\ UNCHANGED beyondCache

\* Lines 46-67: the gathering settles; the data, whose timestamp is the time
\* of its making, is put in the cache under the key of line 37 and returned.
GatherSettled(g) ==
    /\ gather[g].pc = "gathering"
    /\ LET contextData == [type |-> gather[g].type, timestamp |-> now]
       IN /\ contextCache' = MapSet(contextCache, gather[g].key,
                                    [data |-> contextData, timestamp |-> now])
          /\ gather' = [gather EXCEPT ![g].pc = "done", ![g].data = contextData,
                                      ![g].doneAt = now]
    /\ UNCHANGED <<now, adapterCalls>>
    /\ UNCHANGED beyondCache

\* Time passes.
ClockAdvances ==
    /\ \E later \in Instants :
         /\ later > now
         /\ now' = later
    /\ UNCHANGED <<contextCache, adapterCalls, gather>>
    /\ UNCHANGED beyondCache

CacheInit ==
    /\ PipelineStart(TRUE, TRUE)
    /\ StreamIdle
    /\ BudgetIdle
    /\ UnitsIdle

CacheNext ==
    \/ \E g \in Gathers : GatherContext(g)
    \/ \E g \in Gathers : GatherSettled(g)
    \/ ClockAdvances

CacheSpec == CacheInit /\ [][CacheNext]_vars

\* A gatherContext of the type that gathered its data has completed less than
\* CACHE_TTL ago.
CompletedLately(type) ==
    \E h \in Gathers :
        /\ gather[h].pc = "done"
        /\ ~gather[h].cached
        /\ gather[h].type = type
        /\ now - gather[h].doneAt < CACHE_TTL

\* C39: a gatherContext made less than CACHE_TTL after a gatherContext of the
\* same type has completed returns cached data and calls no adapter, and the
\* cache never holds more than one entry of a context type.
C39_CacheServesWithinTtl ==
    /\ [](\A type \in ContextTypes :
             Cardinality({k \in DOMAIN contextCache : k[1] = type}) <= 1)
    /\ [][\A g \in Gathers :
             (gather[g].pc = "init" /\ gather'[g].pc # "init"
              /\ CompletedLately(gather'[g].type)) =>
                 /\ gather'[g].pc = "done"
                 /\ gather'[g].cached
                 /\ adapterCalls' = adapterCalls]_vars

====
